---- MODULE Spec2Model ----
(***************************************************************************)
(* Model of the implicit-geometry slicing pipeline:                        *)
(*   exporters/ctb_exporter.py       rle_encode_ctb, create_ctb_archive    *)
(*   exporters/anycubic_exporter.py  encode_pw0_image,                     *)
(*                                   create_anycubic_archive               *)
(*   sampler.py                      generate_png_slices                   *)
(*   implicit.py                     main, command "slice"                 *)
(*   loader.py                       build_evaluator, evaluate_node        *)
(*   implicit_core/lattice           gyroid, schwarz_p, diamond,           *)
(*                                   sample_points_inside                  *)
(*                                                                         *)
(* The specifications share the variables:                                 *)
(*   SpecRle    the CTB run-length encoder applied to one packed bitmap    *)
(*   SpecPw0    the Anycubic layer encoder applied to one 8-bit image      *)
(*   SpecLayer  one slice image packed by Pillow and run-length encoded    *)
(*   SpecSlice  one call of generate_png_slices                            *)
(*   Spec       the slice folder, the slicer and the two archive writers   *)
(*   SpecLib    calls of the evaluators and the lattice constructors       *)
(*   SpecField  the same geometry through the different evaluators         *)
(*   SpecSample one call of sample_points_inside                           *)
(***************************************************************************)
EXTENDS Integers, Sequences, FiniteSets, TLC

VARIABLES
    image,      \* codec input: [w, h, px], px the row-major pixels
    raw_bits,   \* codec input of rle_encode_ctb: the packed bytes
    payload,    \* codec output bytes
    pc,         \* codec position: "idle", "input", "encoded"
    folder,     \* slice folder: file name (stem) -> image
    ctb_file,   \* what is at the CTB output path
    pm7m_file,  \* what is at the Anycubic output path
    result,     \* the last operation and how it ended
    run,        \* what the last generate_png_slices call did
    ops,        \* number of operations performed so far
    call,       \* the last library call: what was called, on what, outcome
    mesh_cache, \* mesh paths get_mesh_signed_distance has a cached result for
    mesh_loads, \* mesh path -> number of trimesh.load calls for it
    mesh_requests, \* mesh path -> number of get_mesh_signed_distance calls
    calls,      \* number of library calls made so far
    sdf,        \* sample_points_inside: the field, point -> sign of its value
    n_points,   \* sample_points_inside: the number of points asked for
    pts,        \* sample_points_inside: the accepted points
    tries,      \* sample_points_inside: its counter tries
    draws,      \* sample_points_inside: points drawn so far
    spc         \* sample_points_inside: "idle", "loop", "returned", "raised"

codecVars  == <<image, raw_bits, payload, pc>>
pipeVars   == <<folder, ctb_file, pm7m_file, result, run, ops>>
libVars    == <<call, mesh_cache, mesh_loads, mesh_requests, calls>>
sampleVars == <<sdf, n_points, pts, tries, draws, spc>>

vars == <<codecVars, pipeVars, libVars, sampleVars>>

----------------------------------------------------------------------------
(* Bounds of the model *)

MaxW == 3          \* small bitmap widths 1..MaxW are enumerated in full
MaxH == 2          \* bitmap heights 1..MaxH
MaxToggle == 3     \* value changes allowed at pixel indices 1..MaxToggle

----------------------------------------------------------------------------
(* Arithmetic helpers *)

Min(a, b) == IF a < b THEN a ELSE b
Max(a, b) == IF a > b THEN a ELSE b

RECURSIVE Pow2(_)
Pow2(n) == IF n = 0 THEN 1 ELSE 2 * Pow2(n - 1)

CeilDiv(a, b) == (a + b - 1) \div b

RECURSIVE ConcatRange(_, _, _)
\* ss[lo] \o ... \o ss[hi], halving the range to keep the recursion shallow
ConcatRange(ss, lo, hi) ==
    IF lo > hi THEN <<>>
    ELSE IF lo = hi THEN ss[lo]
    ELSE LET mid == (lo + hi) \div 2
         IN ConcatRange(ss, lo, mid) \o ConcatRange(ss, mid + 1, hi)

\* concatenation of a sequence of sequences
Concat(ss) == ConcatRange(ss, 1, Len(ss))

\* the function f on 1..n as a sequence value; the same function, but its
\* elements are then computed once and not at every application
AsSeq(f) == f \o <<>>

Repeat(v, n) == AsSeq([i \in 1..n |-> v])

----------------------------------------------------------------------------
(* exporters/ctb_exporter.py : rle_encode_ctb *)

RunCap == 127      \* min(remaining, 127)

\* the bit at bit_index of the packed bytes, most significant bit first, read
\* LSB first: what the encoder would read if bit_in_byte were bit_index & 7
ReadBit_LsbFirst(bits, bit_index) ==
    (bits[(bit_index \div 8) + 1] \div Pow2(bit_index % 8)) % 2

\* val = (raw_bits[bit_index >> 3] >> (7 - (bit_index & 7))) & 1
ReadBit(bits, bit_index) ==
    (bits[(bit_index \div 8) + 1] \div Pow2(7 - (bit_index % 8))) % 2

\* 0x80 | this_run, for this_run below 256
Or80(n) == IF (n \div 128) % 2 = 1 THEN n ELSE n + 128

ThisRun_Cap128(remaining) == Min(remaining, RunCap + 1)

\* this_run = min(remaining, 127)
ThisRun(remaining) == Min(remaining, RunCap)

\* the inner while loop: run grows while x + run < width and the next bit of
\* the row equals val; the result is the first run at which the loop stops
CountRun(bits, width, y, x, val) ==
    LET stops(r) == \/ ~(x + r < width)
                    \/ ReadBit(bits, y * width + x + r) # val
    IN CHOOSE r \in 1..(width - x) :
          stops(r) /\ \A k \in 1..(r - 1) : ~stops(k)

RECURSIVE EmitChunks(_, _)
\* the chunk loop: pairs (0x80 | this_run, 0xFF if val else 0x00)
EmitChunks(remaining, val) ==
    IF remaining > 0
    THEN <<Or80(ThisRun(remaining)), IF val # 0 THEN 255 ELSE 0>>
         \o EmitChunks(remaining - ThisRun(remaining), val)
    ELSE <<>>

RECURSIVE EncodeRow(_, _, _, _)
\* the loop "while x < width" of one row y
EncodeRow(bits, width, y, x) ==
    IF x < width
    THEN LET val == ReadBit(bits, y * width + x)
             r   == CountRun(bits, width, y, x, val)
         IN EmitChunks(r, val) \o EncodeRow(bits, width, y, x + r)
    ELSE <<>>

rle_encode_ctb(bits, width, height) ==
    Concat([yy \in 1..height |-> EncodeRow(bits, width, yy - 1, 0)])

----------------------------------------------------------------------------
(* Packed 1-bit data as rle_encode_ctb's docstring describes it: row-major,  *)
(* 8 pixels per byte, pixel (x,y) at bit index y*width+x, MSB first         *)

BitOrZero(px, i) == IF i <= Len(px) THEN px[i] ELSE 0

PackedByte(px, k) ==
      BitOrZero(px, 8*(k-1) + 1) * 128 + BitOrZero(px, 8*(k-1) + 2) * 64
    + BitOrZero(px, 8*(k-1) + 3) * 32  + BitOrZero(px, 8*(k-1) + 4) * 16
    + BitOrZero(px, 8*(k-1) + 5) * 8   + BitOrZero(px, 8*(k-1) + 6) * 4
    + BitOrZero(px, 8*(k-1) + 7) * 2   + BitOrZero(px, 8*(k-1) + 8)

PackRowMajor(px) == AsSeq([k \in 1..CeilDiv(Len(px), 8) |-> PackedByte(px, k)])

\* pixel indices at which the generated bitmaps may change value
TogglePts == (1..MaxToggle) \cup {RunCap, RunCap + 1, 2 * RunCap, 2 * RunCap + 1}

RleWidths == (1..MaxW) \cup {RunCap, RunCap + 1, 2 * RunCap + 1}

\* the bitmap of n pixels that starts with s and changes value at the indices T
ToggleBitmap(n, s, T) ==
    [i \in 1..n |-> (s + Cardinality({t \in T : t <= i - 1})) % 2]

NoImage == [w |-> 0, h |-> 0, px |-> <<>>]

\* no file at an output path
NoFile == [exists |-> FALSE, entries |-> <<>>]

NoRun == [status |-> "none", num_layers |-> 0, zs |-> <<>>, layers |-> <<>>,
          written |-> <<>>]

NoJob == [form |-> "none", kind |-> "", nodes |-> <<>>, zmin |-> 0, zmax |-> 0,
          thickness |-> 1, sdf |-> [kind |-> "", thickness |-> 0, inputs |-> <<>>]]

\* mesh paths the documents of the model name
MeshPaths == {"benchy.stl", "part.stl"}

NoCall == [fn |-> "none", status |-> "none"]

\* a fresh process: nothing called, nothing cached
LibIdle ==
    /\ call = NoCall
    /\ mesh_cache = {}
    /\ mesh_loads = [p \in MeshPaths |-> 0]
    /\ mesh_requests = [p \in MeshPaths |-> 0]
    /\ calls = 0

\* no sample_points_inside call under way
SampleIdle ==
    /\ sdf = <<>>
    /\ n_points = 0
    /\ pts = <<>>
    /\ tries = 0
    /\ draws = 0
    /\ spc = "idle"

\* an empty slice folder, no archive at either output path
FilesIdle ==
    /\ folder = <<>>
    /\ ctb_file = NoFile
    /\ pm7m_file = NoFile
    /\ result = [op |-> "none", status |-> "none", job |-> NoJob]
    /\ run = NoRun
    /\ ops = 0

\* nothing written yet; the library and the sampler are idle
PipeIdle ==
    /\ FilesIdle
    /\ LibIdle
    /\ SampleIdle

RleInit ==
    /\ \E w \in RleWidths, h \in 1..MaxH, s \in {0, 1}, T \in SUBSET TogglePts :
          /\ image = [w |-> w, h |-> h, px |-> ToggleBitmap(w * h, s, T)]
          /\ raw_bits = PackRowMajor(ToggleBitmap(w * h, s, T))
    /\ payload = <<>>
    /\ pc = "input"
    /\ PipeIdle

RleEncode ==
    /\ pc = "input"
    /\ payload' = rle_encode_ctb(raw_bits, image.w, image.h)
    /\ pc' = "encoded"
    /\ UNCHANGED <<image, raw_bits, pipeVars, libVars, sampleVars>>

RleNext == RleEncode

SpecRle == RleInit /\ [][RleNext]_vars

----------------------------------------------------------------------------
(* Reading an encoded CTB payload back *)

\* the chunks of a payload: <<n, v>> for each byte pair (0x80 | n, v)
CtbChunks(bytes) ==
    [j \in 1..(Len(bytes) \div 2) |->
        [n |-> bytes[2*j - 1] % 128, flag |-> bytes[2*j - 1] \div 128,
         v |-> bytes[2*j]]]

ExpandCtb(bytes) ==
    Concat([j \in 1..(Len(bytes) \div 2) |->
        Repeat(IF CtbChunks(bytes)[j].v = 255 THEN 1 ELSE 0,
               CtbChunks(bytes)[j].n)])

\* number of pixels covered by the first j chunks
RECURSIVE SumRange(_, _, _)
SumRange(ns, lo, hi) ==
    IF lo > hi THEN 0
    ELSE IF lo = hi THEN ns[lo]
    ELSE LET mid == (lo + hi) \div 2
         IN SumRange(ns, lo, mid) + SumRange(ns, mid + 1, hi)

ChunkEnd(ch, j) == SumRange([i \in 1..Len(ch) |-> ch[i].n], 1, j)

\* C1: expanding the pairs rle_encode_ctb emits gives back the bitmap, pixel
\* for pixel in row-major order, also when a row holds runs above 127 pixels
C1_RoundTripCtb ==
    pc = "encoded" => ExpandCtb(payload) = image.px

\* a row of 255 equal pixels has been encoded
C1_Witness ==
    /\ pc = "encoded"
    /\ image.w = 2 * RunCap + 1
    /\ \A i \in 1..image.w : image.px[i] = 1
    /\ Len(payload) = 6

\* C3: every chunk is (0x80|n, v) with 1 <= n <= 127 and v in {0x00, 0xFF};
\* the chunks of each row sum to the width; two consecutive chunks of one row
\* have the same value only if the first is a full chunk of 127
C3_ChunksWellFormed ==
    pc = "encoded" =>
        LET ch == CtbChunks(payload)
            ends == [j \in 1..Len(ch) |-> ChunkEnd(ch, j)]
        IN /\ Len(payload) % 2 = 0
           /\ \A j \in 1..Len(ch) :
                /\ ch[j].flag = 1
                /\ ch[j].n \in 1..RunCap
                /\ ch[j].v \in {0, 255}
           /\ \A r \in 1..image.h : \E j \in 1..Len(ch) : ends[j] = r * image.w
           /\ Len(ch) > 0 => ends[Len(ch)] = image.w * image.h
           /\ \A j \in 1..(Len(ch) - 1) :
                (ends[j] % image.w # 0 /\ ch[j].v = ch[j + 1].v)
                    => ch[j].n = RunCap

\* a run of 128 pixels inside a row was split into 127 + 1, followed by a
\* chunk of the other value in the same row
C3_Witness ==
    /\ pc = "encoded"
    /\ image.w = 2 * RunCap + 1
    /\ Len(payload) >= 6
    /\ payload[1] = 128 + RunCap /\ payload[3] = 129
    /\ payload[2] = payload[4] /\ payload[6] # payload[4]

----------------------------------------------------------------------------
(* exporters/anycubic_exporter.py : encode_pw0_image *)

Pw0Cap == 255      \* run_length < 255

\* np.where(arr < 128, 0, 255)
Binarize(v) == IF v < 128 THEN 0 ELSE 255

\* struct.pack("<H", n)
PackU16(n) == <<n % 256, (n \div 256) % 256>>

Pw0Step_Cap256(st, pix) ==
    IF pix = st.run_value /\ st.run_length < Pw0Cap + 1
    THEN [st EXCEPT !.run_length = @ + 1]
    ELSE [run_value |-> pix, run_length |-> 1,
          rle_bytes |-> st.rle_bytes \o <<st.run_length % 256, st.run_value>>]

\* the body of "for pix in flat[1:]"
Pw0Step(st, pix) ==
    IF pix = st.run_value /\ st.run_length < Pw0Cap
    THEN [st EXCEPT !.run_length = @ + 1]
    ELSE [run_value |-> pix, run_length |-> 1,
          rle_bytes |-> st.rle_bytes \o <<st.run_length % 256, st.run_value>>]

RECURSIVE Pw0Loop(_, _, _, _)
\* the loop over flat[lo..hi] started in state st: the pixels are visited left
\* to right; the range is halved, and the state of the left half is computed
\* (its test comes first) before the right half starts, so that the
\* evaluation does not nest once per pixel
Pw0Loop(flat, lo, hi, st) ==
    IF lo > hi THEN st
    ELSE IF lo = hi THEN Pw0Step(st, flat[lo])
    ELSE LET mid  == (lo + hi) \div 2
             left == Pw0Loop(flat, lo, mid, st)
         IN IF left.run_length >= 1 THEN Pw0Loop(flat, mid + 1, hi, left)
            ELSE left

\* the (count, value) stream of the binarized, flattened pixels
Pw0Rle(px) ==
    LET flat == [i \in 1..Len(px) |-> Binarize(px[i])]
        st   == Pw0Loop(flat, 2, Len(flat),
                        [run_value |-> flat[1], run_length |-> 1,
                         rle_bytes |-> <<>>])
    IN st.rle_bytes \o <<st.run_length % 256, st.run_value>>

\* header (width, height, x_offset, y_offset as uint16) + RLE stream; the
\* caller has checked that img is width x height
encode_pw0_image(img, width, height, x_offset, y_offset) ==
    PackU16(width) \o PackU16(height) \o PackU16(x_offset) \o PackU16(y_offset)
        \o Pw0Rle(img.px)

Pw0Widths == (1..MaxW) \cup {Pw0Cap, Pw0Cap + 1}

Pw0TogglePts == (1..MaxToggle) \cup {Pw0Cap, Pw0Cap + 1, 2 * Pw0Cap}

Pw0Init ==
    /\ \E w \in Pw0Widths, h \in 1..MaxH, s \in {0, 1}, T \in SUBSET Pw0TogglePts,
          dark \in {0, 127}, light \in {128, 255} :
          image = [w |-> w, h |-> h,
                   px |-> [i \in 1..(w * h) |->
                             IF ToggleBitmap(w * h, s, T)[i] = 0
                             THEN dark ELSE light]]
    /\ raw_bits = <<>>
    /\ payload = <<>>
    /\ pc = "input"
    /\ PipeIdle

Pw0Encode ==
    /\ pc = "input"
    /\ payload' = encode_pw0_image(image, image.w, image.h, 0, 0)
    /\ pc' = "encoded"
    /\ UNCHANGED <<image, raw_bits, pipeVars, libVars, sampleVars>>

Pw0Next == Pw0Encode

SpecPw0 == Pw0Init /\ [][Pw0Next]_vars

\* the (count, value) pairs behind the 8-byte header
Pw0Pairs(bytes) ==
    [j \in 1..((Len(bytes) - 8) \div 2) |->
        [count |-> bytes[8 + 2*j - 1], value |-> bytes[8 + 2*j]]]

ExpandPw0(bytes) ==
    Concat([j \in 1..Len(Pw0Pairs(bytes)) |->
        Repeat(Pw0Pairs(bytes)[j].value, Pw0Pairs(bytes)[j].count)])

\* C2: expanding the pairs behind the 8-byte header gives the row-major
\* pixels binarized to 0 (below 128) or 255; every count is in 1..255 and
\* the counts sum to width*height (so longer runs are split)
C2_RoundTripPw0 ==
    pc = "encoded" =>
        LET pairs == Pw0Pairs(payload)
        IN /\ Len(payload) >= 10 /\ (Len(payload) - 8) % 2 = 0
           /\ ExpandPw0(payload)
                = [i \in 1..Len(image.px) |->
                      IF image.px[i] < 128 THEN 0 ELSE 255]
           /\ \A j \in 1..Len(pairs) : pairs[j].count \in 1..255
           /\ SumRange([j \in 1..Len(pairs) |-> pairs[j].count], 1, Len(pairs))
                = image.w * image.h

\* a run of 510 equal pixels was written as two pairs of count 255
C2_Witness ==
    /\ pc = "encoded"
    /\ image.w = Pw0Cap /\ image.h = 2
    /\ \A i \in 1..Len(image.px) : image.px[i] = 128
    /\ Len(payload) = 12
    /\ payload[9] = 255 /\ payload[11] = 255

----------------------------------------------------------------------------
(* Exact rational numbers [n, d] with d > 0 stand for the floats of the    *)
(* slicer; rounding of the floating-point operations is not modelled       *)

Rat(n, d) == [n |-> n, d |-> d]
RInt(k) == Rat(k, 1)
RAdd(a, b) == Rat(a.n * b.d + b.n * a.d, a.d * b.d)
RSub(a, b) == Rat(a.n * b.d - b.n * a.d, a.d * b.d)
RMul(a, b) == Rat(a.n * b.n, a.d * b.d)
RLt(a, b) == a.n * b.d < b.n * a.d
RLe(a, b) == a.n * b.d <= b.n * a.d
REq(a, b) == a.n * b.d = b.n * a.d
RAbs(a) == Rat(IF a.n < 0 THEN -a.n ELSE a.n, a.d)
RMax(a, b) == IF RLt(a, b) THEN b ELSE a

\* int(q) of Python: truncation toward zero
RTrunc(a) == IF a.n >= 0 THEN a.n \div a.d ELSE -((-a.n) \div a.d)

\* np.linspace(start, stop, num)[i], i counted from 0
Linspace(start, stop, num, i) ==
    IF num = 1 THEN RInt(start)
    ELSE Rat(start * (num - 1) + i * (stop - start), num - 1)

----------------------------------------------------------------------------
(* sampler.py : file names and documents *)

RECURSIVE Digits(_)
\* the decimal digits of a natural number, most significant first
Digits(i) == IF i < 10 THEN <<i>> ELSE Digits(i \div 10) \o <<i % 10>>

PadWidth == 4      \* the 04 of f"slice_{i:04d}.png"

\* the digits of f"{i:04d}": zero-padded to at least four
Fmt04(i) == Repeat(0, PadWidth - Len(Digits(i))) \o Digits(i)

\* documents of the model; the bounds in x and y are the same for all
\* (the documents are centred on the z axis)
XMax == 2
XMin == 0 - XMax
YMax == 1
YMin == 0 - YMax

\* the mesh the Mesh nodes name: the external mesh collaborator answers for
\* an axis-aligned block [lo, hi] per axis
MeshBlock == [x0 |-> -1, x1 |-> 1, y0 |-> -2, y1 |-> 0, z0 |-> 0, z1 |-> 2]

FlatKinds == {"sphere", "box", "mesh"}

\* the "sdf" object of a flat document: its kind, the thickness of a gyroid
\* and, for a boolean combine, the "sdf" objects of the documents its inputs
\* name
Sdf(kind, thickness, inputs) ==
    [kind |-> kind, thickness |-> thickness, inputs |-> inputs]

\* a flat document {"bounds": ..., "sdf": {"kind": ...}}
FlatDoc(kind, zmin, zmax) ==
    [form |-> "flat", kind |-> kind, nodes |-> <<>>,
     zmin |-> zmin, zmax |-> zmax, sdf |-> Sdf(kind, 0, <<>>)]

\* a flat document with the "sdf" object sdf_meta
FlatSdfDoc(sdf_meta, zmin, zmax) ==
    [form |-> "flat", kind |-> sdf_meta.kind, nodes |-> <<>>,
     zmin |-> zmin, zmax |-> zmax, sdf |-> sdf_meta]

\* a node-graph document {"metadata": {"bounds": ...}, "nodes": [...]};
\* nodes is the sequence of the node types, the last one is the root
NodeDoc(nodes, zmin, zmax) ==
    [form |-> "nodes", kind |-> "", nodes |-> nodes,
     zmin |-> zmin, zmax |-> zmax, sdf |-> Sdf("", 0, <<>>)]

NodeLists ==
    { <<"Mesh">>,
      <<"Mesh", "Transform", "Subtract">>,
      <<"Sphere">>,
      <<"Mesh", "Sphere", "Union">>,
      <<"Mesh", "Transform", "Lattice", "Subtract">> }

HasNode(doc, t) == \E k \in 1..Len(doc.nodes) : doc.nodes[k] = t

----------------------------------------------------------------------------
(* sampler.py : the fields of flat documents and the sampling of a layer *)

SphereRadius == 2      \* radius of the flat sphere document, centre 0
BoxHalf == 1           \* halfwidths of the flat box document
BoxCentreY == 1        \* its "center" is [0, BoxCentreY, 0]

Sq(a) == RMul(a, a)

\* eval_fn of kind sphere: (dx*dx + dy*dy + dz*dz)**0.5 - radius < 0
SphereInside(x, y, z) ==
    /\ SphereRadius > 0
    /\ RLt(RAdd(Sq(x), RAdd(Sq(y), Sq(z))), RInt(SphereRadius * SphereRadius))

\* eval_fn of kind box: outside_dist + inside_dist < 0; outside_dist is 0
\* exactly when no component of d is positive, and then the value is
\* min(max(dx, dy, dz), 0)
BoxInside(x, y, z) ==
    LET dx == RSub(RAbs(x), RInt(BoxHalf))
        dy == RSub(RAbs(RSub(y, RInt(BoxCentreY))), RInt(BoxHalf))
        dz == RSub(RAbs(z), RInt(BoxHalf))
    IN RLt(RMax(dx, RMax(dy, dz)), RInt(0))

\* the sign (-1, 0, 1) of the value eval_fn returns: for the sphere that of
\* dx*dx + dy*dy + dz*dz against radius squared, for the box that of
\* max(dx, dy, dz), since outside_dist is positive exactly when one of them is
RSign(a) == IF a.n < 0 THEN -1 ELSE IF a.n = 0 THEN 0 ELSE 1

FlatFieldSign(kind, x, y, z) ==
    IF kind = "sphere"
    THEN RSign(RSub(RAdd(Sq(x), RAdd(Sq(y), Sq(z))),
                    RInt(SphereRadius * SphereRadius)))
    ELSE RSign(RMax(RSub(RAbs(x), RInt(BoxHalf)),
               RMax(RSub(RAbs(RSub(y, RInt(BoxCentreY))), RInt(BoxHalf)),
                    RSub(RAbs(z), RInt(BoxHalf)))))

\* field_vals < 0 at one sample of a flat document
FlatInside(kind, x, y, z) ==
    IF kind = "sphere" THEN SphereInside(x, y, z) ELSE BoxInside(x, y, z)

\* one layer of the flat path: xs, ys = linspace over the bounds, meshgrid
\* indexing "xy", reshape (res_y, res_x): row iy is ys[iy], column ix is xs[ix]
FlatLayer(kind, z, res_x, res_y) ==
    [w |-> res_x, h |-> res_y,
     px |-> AsSeq([k \in 1..(res_x * res_y) |->
               LET ix == (k - 1) % res_x
                   iy == (k - 1) \div res_x
               IN IF FlatInside(kind, Linspace(XMin, XMax, res_x, ix),
                                Linspace(YMin, YMax, res_y, iy), z)
                  THEN 255 ELSE 0])]

----------------------------------------------------------------------------
(* sampler.py : cross-section rasterization of the node-graph path *)

ShrinkScale == Rat(1, 2)     \* params.scale of the Transform node

\* mesh.section(plane_origin=[0,0,z], plane_normal=[0,0,1]) of the block
\* scaled by sc: None when the plane misses it, else its rectangle
HasSection(sc, z) ==
    /\ RLe(RMul(sc, RInt(MeshBlock.z0)), z)
    /\ RLe(z, RMul(sc, RInt(MeshBlock.z1)))

\* int((x - xmin) * scale_x), scale_x = (res_x - 1) / (xmax - xmin)
PixX(x, res_x) ==
    RTrunc(RMul(RSub(x, RInt(XMin)), Rat(res_x - 1, XMax - XMin)))

\* int((ymax - y) * scale_y), scale_y = (res_y - 1) / (ymax - ymin)
PixY(y, res_y) ==
    RTrunc(RMul(RSub(RInt(YMax), y), Rat(res_y - 1, YMax - YMin)))

\* draw.polygon(exterior, fill=255) of the section of the block scaled by sc:
\* the pixels of the rectangle spanned by the truncated corner coordinates
SectionMask(sc, z, res_x, res_y) ==
    AsSeq([k \in 1..(res_x * res_y) |->
        LET ix == (k - 1) % res_x
            iy == (k - 1) \div res_x
            a  == PixX(RMul(sc, RInt(MeshBlock.x0)), res_x)
            b  == PixX(RMul(sc, RInt(MeshBlock.x1)), res_x)
            c  == PixY(RMul(sc, RInt(MeshBlock.y0)), res_y)
            d  == PixY(RMul(sc, RInt(MeshBlock.y1)), res_y)
        IN IF /\ HasSection(sc, z)
              /\ Min(a, b) <= ix /\ ix <= Max(a, b)
              /\ Min(c, d) <= iy /\ iy <= Max(c, d)
           THEN 255 ELSE 0])

\* is_mesh_root: the section of the mesh, or a blank image when it is None
MeshLayer(z, res_x, res_y) ==
    [w |-> res_x, h |-> res_y, px |-> SectionMask(RInt(1), z, res_x, res_y)]

\* numbers w + r * sqrt(2)/2 with w rational and r an integer: the sines and
\* cosines of whole eighths of a turn, their products and sums
Surd(w, r) == [w |-> w, r |-> r]
SurdAdd(a, b) == Surd(RAdd(a.w, b.w), a.r + b.r)
SurdMulTrig(a, b) ==
    \* a and b sines or cosines: w is an integer (denominator 1)
    Surd(Rat(2 * a.w.n * b.w.n + a.r * b.r, 2), a.w.n * b.r + a.r * b.w.n)

\* w + r * sqrt(2)/2 <= 0
SurdLe0(a) ==
    IF a.r = 0 THEN a.w.n <= 0
    ELSE IF a.r > 0
    THEN a.w.n <= 0 /\ a.r * a.r * a.w.d * a.w.d <= 2 * a.w.n * a.w.n
    ELSE a.w.n <= 0 \/ 2 * a.w.n * a.w.n <= a.r * a.r * a.w.d * a.w.d

\* abs(a) <= t, t an integer
SurdAbsLe(a, t) ==
    /\ SurdLe0(Surd(RSub(a.w, RInt(t)), a.r))
    /\ SurdLe0(Surd(RSub(RSub(RInt(0), a.w), RInt(t)), -a.r))

\* the number of eighths of a turn in 2*pi*x/c, for x and c rational with x
\* a whole number of eighths of c
Eighths(x, c) ==
    CHOOSE k \in (-8 * (RAbs(x).n + 1) * c.d)..(8 * (RAbs(x).n + 1) * c.d) :
        k * x.d * c.n = 8 * x.n * c.d

\* np.sin and np.cos of k eighths of a turn
Sin8(k) ==
    <<Surd(RInt(0), 0), Surd(RInt(0), 1), Surd(RInt(1), 0), Surd(RInt(0), 1),
      Surd(RInt(0), 0), Surd(RInt(0), -1), Surd(RInt(-1), 0), Surd(RInt(0), -1)>>
        [(k % 8) + 1]
Cos8(k) == Sin8(k + 2)

\* params of the Lattice node of the model's documents: cell_size per axis
\* and thickness
LatticeParams ==
    [cell_size |-> <<Rat(8 * XMax, 1), Rat(8 * YMax, 3), Rat(8, 1)>>,
     thickness |-> 1]

\* gy at (x, y, z):
\* sin(X/cx)cos(Y/cy) + sin(Y/cy)cos(Z/cz) + sin(Z/cz)cos(X/cx), angles 2*pi*
HybridGyroid(x, y, z) ==
    LET a == Eighths(x, LatticeParams.cell_size[1])
        b == Eighths(y, LatticeParams.cell_size[2])
        c == Eighths(z, LatticeParams.cell_size[3])
    IN SurdAdd(SurdMulTrig(Sin8(a), Cos8(b)),
       SurdAdd(SurdMulTrig(Sin8(b), Cos8(c)), SurdMulTrig(Sin8(c), Cos8(a))))

\* gy_mask: np.abs(gy) <= thickness on X, Y = np.meshgrid(xs, ys), row iy
\* at ys[iy]; all zero when the document has no Lattice node
GyMask(has_lattice, z, res_x, res_y) ==
    AsSeq([k \in 1..(res_x * res_y) |->
        LET ix == (k - 1) % res_x
            iy == (k - 1) \div res_x
        IN IF /\ has_lattice
              /\ SurdAbsLe(HybridGyroid(Linspace(XMin, XMax, res_x, ix),
                                        Linspace(YMin, YMax, res_y, iy), z),
                           LatticeParams.thickness)
           THEN 255 ELSE 0])

\* hybrid path: shell_mask = benchy_mask with the pixels of shrink_mask
\* cleared, interior = gy_mask AND shrink_mask, final = shell OR interior
HybridLayer(z, res_x, res_y, has_lattice) ==
    LET benchy_mask == SectionMask(RInt(1), z, res_x, res_y)
        shrink_mask == SectionMask(ShrinkScale, z, res_x, res_y)
        gy_mask == GyMask(has_lattice, z, res_x, res_y)
    IN [w |-> res_x, h |-> res_y,
        px |-> AsSeq([k \in 1..(res_x * res_y) |->
                  IF \/ benchy_mask[k] = 255 /\ shrink_mask[k] # 255
                     \/ gy_mask[k] = 255 /\ shrink_mask[k] = 255
                  THEN 255 ELSE 0])]

----------------------------------------------------------------------------
(* sampler.py : _build_sdf_eval on gyroid and boolean-combine documents, as
   the flat path of the slicer samples it *)

\* "cell_size" of the gyroid documents of the model, per axis
FlatGyroidCell == <<Rat(8 * XMax, 1), Rat(8 * YMax, 3), Rat(4, 1)>>

\* gy of the eval_fn of kind gyroid
FlatGyroid(x, y, z) ==
    LET a == Eighths(x, FlatGyroidCell[1])
        b == Eighths(y, FlatGyroidCell[2])
        c == Eighths(z, FlatGyroidCell[3])
    IN SurdAdd(SurdMulTrig(Sin8(a), Cos8(b)),
       SurdAdd(SurdMulTrig(Sin8(b), Cos8(c)), SurdMulTrig(Sin8(c), Cos8(a))))

SurdNeg(a) == Surd(RSub(RInt(0), a.w), 0 - a.r)

\* the sign (-1, 0, 1) of w + r * sqrt(2)/2
SurdSign(a) ==
    IF SurdLe0(a) THEN (IF SurdLe0(SurdNeg(a)) THEN 0 ELSE -1) ELSE 1

SurdAbs(a) == IF SurdLe0(a) THEN SurdNeg(a) ELSE a

\* the sign of gy - thickness
GyroidSign_NoAbs(thickness, x, y, z) ==
    LET g == FlatGyroid(x, y, z)
    IN SurdSign(Surd(RSub(g.w, RInt(thickness)), g.r))

\* the sign of the value the eval_fn of kind gyroid returns:
\* abs(gy) - thickness
GyroidSign(thickness, x, y, z) ==
    LET g == SurdAbs(FlatGyroid(x, y, z))
    IN SurdSign(Surd(RSub(g.w, RInt(thickness)), g.r))

SdfLeafKinds == {"sphere", "box", "gyroid"}
SdfCombineKinds == {"union", "intersect", "subtract"}

\* the error _build_sdf_eval raises on the "sdf" object, "" when it returns
\* an evaluator: every input is loaded and built before the combine
RECURSIVE SdfBuildError(_)
SdfBuildError(sdf_meta) ==
    IF sdf_meta.kind \in SdfLeafKinds THEN ""
    ELSE IF sdf_meta.kind \in SdfCombineKinds
    THEN IF \E k \in 1..Len(sdf_meta.inputs) : SdfBuildError(sdf_meta.inputs[k]) # ""
         THEN "ValueError" ELSE ""
    ELSE "ValueError"

\* the error a call of the evaluator raises, "" when it returns a number:
\* min() and max() of no operand, child_evals[1] of a subtract of one input
RECURSIVE SdfCallError(_)
SdfCallError(sdf_meta) ==
    IF sdf_meta.kind \in SdfLeafKinds THEN ""
    ELSE IF sdf_meta.kind \in {"union", "intersect"}
    THEN IF sdf_meta.inputs = <<>> THEN "ValueError"
         ELSE LET bad == {k \in 1..Len(sdf_meta.inputs) :
                              SdfCallError(sdf_meta.inputs[k]) # ""}
              IN IF bad = {} THEN ""
                 ELSE SdfCallError(sdf_meta.inputs[CHOOSE k \in bad :
                                                  \A j \in bad : k <= j])
    ELSE IF Len(sdf_meta.inputs) = 0 THEN "IndexError"
    ELSE IF SdfCallError(sdf_meta.inputs[1]) # "" THEN SdfCallError(sdf_meta.inputs[1])
    ELSE IF Len(sdf_meta.inputs) = 1 THEN "IndexError"
    ELSE SdfCallError(sdf_meta.inputs[2])

\* the sign of the value the evaluator returns at (x, y, z): min of the
\* children for a union, max for an intersect,
\* max(child_evals[0], -child_evals[1]) for a subtract
RECURSIVE SdfSign(_, _, _, _)
SdfSign(sdf_meta, x, y, z) ==
    IF sdf_meta.kind \in {"sphere", "box"} THEN FlatFieldSign(sdf_meta.kind, x, y, z)
    ELSE IF sdf_meta.kind = "gyroid" THEN GyroidSign(sdf_meta.thickness, x, y, z)
    ELSE LET s == [k \in 1..Len(sdf_meta.inputs) |->
                      SdfSign(sdf_meta.inputs[k], x, y, z)]
         IN IF sdf_meta.kind = "union"
            THEN CHOOSE v \in {s[k] : k \in 1..Len(s)} :
                     \A k \in 1..Len(s) : v <= s[k]
            ELSE IF sdf_meta.kind = "intersect"
            THEN CHOOSE v \in {s[k] : k \in 1..Len(s)} :
                     \A k \in 1..Len(s) : v >= s[k]
            ELSE IF s[1] >= 0 - s[2] THEN s[1] ELSE 0 - s[2]

\* one layer of the flat path of a gyroid or boolean-combine document:
\* field_vals < 0 on the grid of FlatLayer
SdfLayer(sdf_meta, z, res_x, res_y) ==
    [w |-> res_x, h |-> res_y,
     px |-> AsSeq([k \in 1..(res_x * res_y) |->
               LET ix == (k - 1) % res_x
                   iy == (k - 1) \div res_x
               IN IF SdfSign(sdf_meta, Linspace(XMin, XMax, res_x, ix),
                             Linspace(YMin, YMax, res_y, iy), z) < 0
                  THEN 255 ELSE 0])]

----------------------------------------------------------------------------
(* sampler.py : generate_png_slices *)

\* num_layers = int(math.ceil((zmax - zmin) / layer_thickness)) + 1
NumLayers(zmin, zmax, layer_thickness) ==
    CeilDiv(zmax - zmin, layer_thickness) + 1

\* z of layer i on the flat path: enumerate(np.linspace(zmin, zmax, num_layers))
FlatZ(doc, num_layers, i) == Linspace(doc.zmin, doc.zmax, num_layers, i)

\* z of layer i on the node-graph path: z = zmin + i * layer_thickness
NodeZ(doc, layer_thickness, i) == RInt(doc.zmin + i * layer_thickness)

Raised(err) ==
    [status |-> err, num_layers |-> 0, zs |-> <<>>, layers |-> <<>>,
     written |-> <<>>]

Returned(n, zs, layers) ==
    [status |-> "ok", num_layers |-> n, zs |-> AsSeq(zs),
     layers |-> AsSeq(layers),
     written |-> AsSeq([i \in 1..n |-> Fmt04(i - 1)])]

\* what one call does: the error it raises, or num_layers, the z of each
\* layer and the images it saves as slice_{i:04d}.png
generate_png_slices(doc, layer_thickness, res_x, res_y) ==
    LET n == NumLayers(doc.zmin, doc.zmax, layer_thickness)
    IN IF doc.form = "flat"
       THEN IF doc.kind \in {"sphere", "box"}
            THEN Returned(n,
                    [i \in 1..n |-> FlatZ(doc, n, i - 1)],
                    [i \in 1..n |->
                        FlatLayer(doc.kind, FlatZ(doc, n, i - 1), res_x, res_y)])
            ELSE IF SdfBuildError(doc.sdf) # ""
            THEN Raised(SdfBuildError(doc.sdf))   \* unsupported kind
            ELSE IF SdfCallError(doc.sdf) # ""
            THEN Raised(SdfCallError(doc.sdf))    \* at the first sample
            ELSE Returned(n,
                    [i \in 1..n |-> FlatZ(doc, n, i - 1)],
                    [i \in 1..n |->
                        SdfLayer(doc.sdf, FlatZ(doc, n, i - 1), res_x, res_y)])
       ELSE IF doc.nodes[Len(doc.nodes)] = "Mesh"
            THEN Returned(n,
                    [i \in 1..n |-> NodeZ(doc, layer_thickness, i - 1)],
                    [i \in 1..n |->
                        MeshLayer(NodeZ(doc, layer_thickness, i - 1),
                                  res_x, res_y)])
            ELSE IF ~HasNode(doc, "Mesh") \/ ~HasNode(doc, "Transform")
                 \* benchy_node["params"] or shrink_node["params"] on None
                 THEN Raised("TypeError")
                 ELSE Returned(n,
                        [i \in 1..n |-> NodeZ(doc, layer_thickness, i - 1)],
                        [i \in 1..n |->
                            HybridLayer(NodeZ(doc, layer_thickness, i - 1),
                                        res_x, res_y,
                                        HasNode(doc, "Lattice"))])

\* img.save(slice_path) for every layer of the run r: the files of the run
\* replace those of the same name, every other file of the folder stays
SaveSlices(fld, r) ==
    LET names == {r.written[i] : i \in 1..Len(r.written)}
    IN [nm \in (DOMAIN fld) \cup names |->
          IF nm \in names
          THEN r.layers[CHOOSE i \in 1..Len(r.written) : r.written[i] = nm]
          ELSE fld[nm]]

Job(doc, layer_thickness) ==
    [form |-> doc.form, kind |-> doc.kind, nodes |-> doc.nodes,
     zmin |-> doc.zmin, zmax |-> doc.zmax, thickness |-> layer_thickness,
     sdf |-> doc.sdf]

MaxLayers == 5     \* only calls that make at most MaxLayers layers are explored
MaxOps == 3        \* operations per behaviour of the pipeline

GeneratePngSlices(doc, layer_thickness, res_x, res_y) ==
    /\ NumLayers(doc.zmin, doc.zmax, layer_thickness) <= MaxLayers
    /\ LET r == generate_png_slices(doc, layer_thickness, res_x, res_y)
       IN /\ run' = r
          /\ folder' = SaveSlices(folder, r)
          /\ result' = [op |-> "generate",
                        status |-> IF r.status = "ok" THEN "ok" ELSE "error",
                        job |-> Job(doc, layer_thickness)]
    /\ ops' = ops + 1
    /\ UNCHANGED <<ctb_file, pm7m_file, codecVars, libVars, sampleVars>>

----------------------------------------------------------------------------
(* The slicer on its own: one call on an empty folder *)

MaxZSpan == 3      \* zmax - zmin ranges over 0..MaxZSpan
MaxThick == 3      \* layer_thickness ranges over 1..MaxThick

\* "thickness" of the gyroid documents
GyroidThicknesses == {-1, 0, 1}

\* the "sdf" objects of the gyroid and boolean-combine documents
GyroidSdfs ==
    { Sdf("gyroid", th, <<>>) : th \in GyroidThicknesses }
    \cup
    { Sdf(k, 0, ins) :
        k \in {"intersect", "union"},
        ins \in { <<Sdf("sphere", 0, <<>>), Sdf("gyroid", th, <<>>)>> :
                      th \in GyroidThicknesses }
                \cup
                { <<Sdf("gyroid", th, <<>>), Sdf("box", 0, <<>>)>> :
                      th \in GyroidThicknesses } }
    \cup
    { Sdf("subtract", 0, <<Sdf("sphere", 0, <<>>), Sdf("gyroid", 0, <<>>)>>),
      Sdf("intersect", 0, <<>>),
      Sdf("union", 0, <<Sdf("gyroid", 0, <<>>), Sdf("mesh", 0, <<>>)>>) }

SliceDocs ==
    { FlatDoc(k, zmin, zmin + d) :
        k \in FlatKinds, zmin \in {-1, 0}, d \in 0..MaxZSpan }
    \cup
    { FlatSdfDoc(m, zmin, zmin + d) :
        m \in GyroidSdfs, zmin \in {-1, 0}, d \in 0..MaxZSpan }
    \cup
    { NodeDoc(ns, zmin, zmin + d) :
        ns \in NodeLists, zmin \in {-1, 0}, d \in 0..MaxZSpan }

SliceRes == { <<1, 1>>, <<2, 2>>, <<3, 2>>, <<8, 2>> }

SliceInit ==
    /\ image = NoImage
    /\ raw_bits = <<>>
    /\ payload = <<>>
    /\ pc = "idle"
    /\ PipeIdle

\* the resolutions at which every sample of the lattice is a whole number of
\* eighths of its cell
LatticeRes == { <<2, 2>>, <<3, 2>> }

SliceCall ==
    /\ ops = 0
    /\ \E doc \in SliceDocs, t \in 1..MaxThick, res \in SliceRes :
          /\ (HasNode(doc, "Lattice") \/ doc.sdf.kind \notin FlatKinds \cup {""})
                => res \in LatticeRes
          /\ GeneratePngSlices(doc, t, res[1], res[2])

SliceNext == SliceCall

SpecSlice == SliceInit /\ [][SliceNext]_vars

\* C9: for every document with zmin <= zmax and every layer_thickness > 0 the
\* call returns num_layers = ceil((zmax - zmin)/layer_thickness) + 1 and has
\* written exactly the images slice_0000 .. slice_{num_layers-1}, on the flat
\* path and on the node-graph path alike
C9_LayerCountAndNames ==
    result.op = "generate" =>
        LET n == CeilDiv(result.job.zmax - result.job.zmin,
                         result.job.thickness) + 1
        IN /\ run.status = "ok"
           /\ run.num_layers = n
           /\ Len(run.written) = n
           /\ \A i \in 0..(n - 1) :
                /\ run.written[i + 1] = Fmt04(i)
                /\ Len(run.written[i + 1]) = 4
                /\ run.written[i + 1] \in DOMAIN folder
           /\ DOMAIN folder = {run.written[i] : i \in 1..n}

\* C10: every layer that was written is sampled at a height z with
\* zmin <= z <= zmax, also when zmax - zmin is no multiple of the thickness
C10_LayersInsideBounds ==
    result.op = "generate" =>
        \A i \in 1..Len(run.zs) :
            /\ RLe(RInt(result.job.zmin), run.zs[i])
            /\ RLe(run.zs[i], RInt(result.job.zmax))

\* C11: on every slicing path layer i is sampled at z = zmin + i *
\* layer_thickness, also when zmax - zmin is no multiple of the thickness
C11_FixedIncrements ==
    (result.op = "generate" /\ run.status = "ok") =>
        \A i \in 1..Len(run.zs) :
            REq(run.zs[i],
                RInt(result.job.zmin + (i - 1) * result.job.thickness))

\* C12: in direct field sampling a pixel is 255 exactly when the field value
\* at the point the slicer samples for it is <= 0, a value of exactly 0
\* included
C12_ForegroundIffNotPositive ==
    (result.op = "generate" /\ run.status = "ok" /\ result.job.form = "flat") =>
        \A i \in 1..Len(run.layers) :
            LET img == run.layers[i]
            IN \A k \in 1..(img.w * img.h) :
                 LET ix == (k - 1) % img.w
                     iy == (k - 1) \div img.w
                     v == SdfSign(result.job.sdf,
                                  Linspace(XMin, XMax, img.w, ix),
                                  Linspace(YMin, YMax, img.h, iy),
                                  run.zs[i])
                 IN (img.px[k] = 255) <=> (v <= 0)

\* the world point the pixel (ix, iy) of a res_x x res_y image stands for:
\* (xmin + ix*(xmax-xmin)/(res_x-1), ymax - iy*(ymax-ymin)/(res_y-1))
WorldX(ix, res_x) == Rat(XMin * (res_x - 1) + ix * (XMax - XMin), res_x - 1)
WorldY(iy, res_y) == Rat(YMax * (res_y - 1) - iy * (YMax - YMin), res_y - 1)

\* C13: on every slicing path the pixel (ix, iy) shows the geometry at its
\* world point, row 0 at ymax and the last row at ymin: in direct sampling it
\* is foreground exactly when the field is negative there, and in
\* cross-section rasterization every pixel whose world point is in the
\* section of the mesh is foreground
C13_PixelGrid ==
    (result.op = "generate" /\ run.status = "ok") =>
        \A i \in 1..Len(run.layers) :
            LET img == run.layers[i]
            IN (img.w >= 2 /\ img.h >= 2) =>
               \A k \in 1..(img.w * img.h) :
                 LET ix == (k - 1) % img.w
                     iy == (k - 1) \div img.w
                     x == WorldX(ix, img.w)
                     y == WorldY(iy, img.h)
                 IN IF result.job.form = "flat"
                    THEN (img.px[k] = 255)
                           <=> SdfSign(result.job.sdf, x, y, run.zs[i]) < 0
                    ELSE (/\ result.job.nodes = <<"Mesh">>
                          /\ HasSection(RInt(1), run.zs[i])
                          /\ RLe(RInt(MeshBlock.x0), x) /\ RLe(x, RInt(MeshBlock.x1))
                          /\ RLe(RInt(MeshBlock.y0), y) /\ RLe(y, RInt(MeshBlock.y1)))
                         => img.px[k] = 255

\* C14: a call with res_x < 2 or res_y < 2 ends with an error and writes no
\* image: no image of fewer than 2 columns or 2 rows is ever in the folder
\* and no such call returns
C14_SmallResolutionRejected ==
    result.op = "generate" =>
        /\ \A nm \in DOMAIN folder : folder[nm].w >= 2 /\ folder[nm].h >= 2
        /\ run.status = "ok" =>
              \A i \in 1..Len(run.layers) :
                  run.layers[i].w >= 2 /\ run.layers[i].h >= 2

----------------------------------------------------------------------------
(* exporters/ctb_exporter.py : collect_slices, create_ctb_archive *)

\* order of two file names slice_<a>.png and slice_<b>.png in list.sort():
\* character by character; where one stem ends the '.' of ".png" is compared
\* with a digit of the other and is the smaller character
NameLess(a, b) ==
    \E k \in 1..(Min(Len(a), Len(b)) + 1) :
        /\ \A j \in 1..(k - 1) : a[j] = b[j]
        /\ \/ k > Len(a) /\ k <= Len(b)
           \/ k <= Len(a) /\ k <= Len(b) /\ a[k] < b[k]

RECURSIVE SortNames(_)
SortNames(S) ==
    IF S = {} THEN <<>>
    ELSE LET m == CHOOSE x \in S : \A y \in S \ {x} : NameLess(x, y)
         IN <<m>> \o SortNames(S \ {m})

collect_slices_NoCheck(fld) ==
    [ok |-> TRUE, files |-> SortNames(DOMAIN fld)]

\* the sorted slice_*.png names of the folder; RuntimeError when there is none
collect_slices(fld) ==
    [ok |-> DOMAIN fld # {}, files |-> SortNames(DOMAIN fld)]

\* Image.open(path).convert("1").tobytes(): one bit per pixel, 8 per byte,
\* most significant bit first, every row padded to a whole byte
PilPack1(img) ==
    Concat([r \in 1..img.h |->
        PackRowMajor([c \in 1..img.w |->
            IF img.px[(r - 1) * img.w + c] >= 128 THEN 1 ELSE 0])])

\* rle_encode_ctb reads the bits 0 .. pixel_x*pixel_y - 1 of raw_bits and
\* raises IndexError when the last of them is outside the bytes
CtbReadable(img, pixel_x, pixel_y) ==
    ((pixel_x * pixel_y - 1) \div 8) + 1 <= Len(PilPack1(img))

OffsetTable_PerLayer(lens) ==
    AsSeq([k \in 1..(Len(lens) + 1) |-> IF k = 1 THEN 0 ELSE lens[k - 1]])

\* offsets[0] = 0, offsets[i + 1] = offsets[i] + len(rle_buffers[i])
OffsetTable(lens) ==
    AsSeq([k \in 1..(Len(lens) + 1) |-> SumRange(lens, 1, k - 1)])

\* struct.pack("<I", o)
PackU32(o) ==
    <<o % 256, (o \div 256) % 256, (o \div 65536) % 256,
      (o \div 16777216) % 256>>

\* entry names of the containers
FileName(f) == [file |-> f, idx |-> <<>>]
\* f"layer_images/layer_{i:04d}.pw0Img"
LayerEntryName(i) == [file |-> "layer_images/layer_.pw0Img", idx |-> Fmt04(i)]

Entry(name, data) == [name |-> name, data |-> data]

\* the fields of pack_ctb_header in the order they are packed; the padding
\* and the byte layout of the floats are not modelled
pack_ctb_header(pixel_x, pixel_y, layer_count, layer_thickness) ==
    [magic |-> "CTB1", version |-> 256,
     pixel_x |-> pixel_x, pixel_y |-> pixel_y, layer_count |-> layer_count,
     layer_thickness |-> layer_thickness,
     exposure_time |-> 2000, bottom_exposure_time |-> 5000,
     num_bottom_layers |-> 5,
     z_lift_dist |-> 6, z_lift_speed |-> 5, z_retract_speed |-> 2]

\* preview_images/preview_0.png next to the slice folder: absent, an empty
\* file, or a file with content
NoPreview == [exists |-> FALSE, bytes |-> <<>>]
Previews ==
    {NoPreview, [exists |-> TRUE, bytes |-> <<>>],
     [exists |-> TRUE, bytes |-> <<137, 80, 78, 71>>]}

\* preview_data = pf.read() if os.path.exists(preview_path), else None;
\* "if preview_data:" is false for None and for the empty bytes
PreviewData(preview) == preview.exists /\ preview.bytes # <<>>

CtbEntries_PayloadsFirst(header, offsets, filename_table, preview, rle_buffers) ==
    [i \in 1..Len(rle_buffers) |->
        Entry(LayerEntryName(i - 1), [bytes |-> rle_buffers[i]])]
    \o <<Entry(FileName("header.bin"), header),
          Entry(FileName("layer_index_table.bin"),
                [bytes |-> Concat([k \in 1..Len(offsets) |-> PackU32(offsets[k])])]),
          Entry(FileName("layer_filenames.tbl"), [names |-> filename_table])>>
    \o (IF PreviewData(preview)
        THEN <<Entry(FileName("preview_images/preview_0.png"),
                     [bytes |-> preview.bytes])>>
        ELSE <<>>)

\* the writestr calls inside the with block, in their order
CtbEntries(header, offsets, filename_table, preview, rle_buffers) ==
    <<Entry(FileName("header.bin"), header),
      Entry(FileName("layer_index_table.bin"),
            [bytes |-> Concat([k \in 1..Len(offsets) |-> PackU32(offsets[k])])]),
      Entry(FileName("layer_filenames.tbl"), [names |-> filename_table])>>
    \o (IF PreviewData(preview)
        THEN <<Entry(FileName("preview_images/preview_0.png"),
                     [bytes |-> preview.bytes])>>
        ELSE <<>>)
    \o [i \in 1..Len(rle_buffers) |->
          Entry(LayerEntryName(i - 1), [bytes |-> rle_buffers[i]])]

\* what create_ctb_archive does with the folder fld: the error it raises
\* before the container is opened, or the entries it writes
create_ctb_archive(fld, pixel_x, pixel_y, layer_thickness, preview) ==
    LET cs == collect_slices(fld)
        slice_files == cs.files
        layer_count == Len(slice_files)
    IN IF ~cs.ok THEN [status |-> "RuntimeError", entries |-> <<>>]
       ELSE IF \E i \in 1..layer_count :
                  ~CtbReadable(fld[slice_files[i]], pixel_x, pixel_y)
       THEN [status |-> "IndexError", entries |-> <<>>]
       ELSE
        LET rle_buffers == AsSeq([i \in 1..layer_count |->
                rle_encode_ctb(PilPack1(fld[slice_files[i]]), pixel_x, pixel_y)])
            offsets == OffsetTable(AsSeq([i \in 1..layer_count |->
                                            Len(rle_buffers[i])]))
            header == pack_ctb_header(pixel_x, pixel_y, layer_count,
                                      layer_thickness)
            filename_table == [i \in 1..layer_count |-> LayerEntryName(i - 1)]
        IN [status |-> "ok",
            entries |-> CtbEntries(header, offsets, filename_table, preview,
                                   rle_buffers)]

\* zipfile.ZipFile(path, "w") replaces what was at the path; the entries
\* written before the with block is left make up the file
Written(entries) == [exists |-> TRUE, entries |-> entries]

CreateCtbArchive(pixel_x, pixel_y, layer_thickness, preview) ==
    /\ LET a == create_ctb_archive(folder, pixel_x, pixel_y, layer_thickness,
                                   preview)
       IN /\ ctb_file' = IF a.status = "ok" THEN Written(a.entries)
                         ELSE ctb_file
          /\ result' = [op |-> "ctb",
                        status |-> IF a.status = "ok" THEN "ok" ELSE "error",
                        job |-> NoJob, preview |-> preview]
    /\ ops' = ops + 1
    /\ UNCHANGED <<folder, pm7m_file, run, codecVars, libVars, sampleVars>>

----------------------------------------------------------------------------
(* exporters/anycubic_exporter.py : create_anycubic_archive *)

NumBottom == 5     \* "num_bottom_layers": 5

\* json.dumps({"count": layer_count, "paras": paras})
build_layers_controller(layer_count, thickness) ==
    [count |-> layer_count,
     paras |-> [k \in 1..layer_count |->
                  [exposure_time |-> IF k - 1 < NumBottom THEN 5000 ELSE 2000,
                   layer_index |-> k - 1,
                   layer_minheight |-> (k - 1) * thickness,
                   layer_thickness |-> thickness,
                   zup_height |-> 6, zup_speed |-> 5]]]

TemplateLayers == 1    \* layers of the print the reference archive was made of

\* the metadata a reference archive supplies: none without a template
TemplateData(template) ==
    IF template = "full"
    THEN [resins |-> TRUE, controller |-> TRUE, software |-> TRUE,
          lcd |-> TRUE, preview |-> TRUE]
    ELSE [resins |-> FALSE, controller |-> FALSE, software |-> FALSE,
          lcd |-> FALSE, preview |-> FALSE]

Verbatim(f) == [copied_from_template |-> f]

\* the entries written before the layer loop (3a, 3b)
AnycubicHead(template, layer_count, width, height, layer_thickness) ==
    LET td == TemplateData(template)
    IN <<Entry(FileName("anycubic_photon_resins.pwsp"),
               IF td.resins THEN Verbatim("anycubic_photon_resins.pwsp")
               ELSE [text |-> "{}"])>>
       \o <<Entry(FileName("layers_controller.conf"),
               IF td.controller
               THEN build_layers_controller(TemplateLayers, layer_thickness)
               ELSE build_layers_controller(layer_count, layer_thickness))>>
       \o (IF td.software
           THEN <<Entry(FileName("software_info.conf"),
                        Verbatim("software_info.conf"))>> ELSE <<>>)
       \o (IF td.lcd
           THEN <<Entry(FileName("lcd_function.json"),
                        Verbatim("lcd_function.json"))>> ELSE <<>>)
       \o (IF td.preview
           THEN <<Entry(FileName("preview_images/preview_0.png"),
                        Verbatim("preview_images/preview_0.png"))>> ELSE <<>>)
       \o <<Entry(FileName("print_info.json"),
                  [layer_count |-> layer_count, pixel_width |-> width,
                   pixel_height |-> height, layer_height |-> layer_thickness])>>

\* the layer loop stops at the first index whose slice_{i:04d}.png is absent
\* (FileNotFoundError) or is not width x height (ValueError)
LayerFails(fld, i, width, height) ==
    \/ Fmt04(i) \notin DOMAIN fld
    \/ <<fld[Fmt04(i)].w, fld[Fmt04(i)].h>> # <<width, height>>

\* the entries written after the layer loop (3d, 3e)
AnycubicTail(fld, template, layer_count, width, height) ==
    (IF ~TemplateData(template).preview /\ Fmt04(0) \in DOMAIN fld
     THEN <<Entry(FileName("preview_images/preview_0.png"),
                  [bytes |-> <<137, 80, 78, 71>>])>>
     ELSE <<>>)
    \o <<Entry(FileName("scene.slice"),
               [layerCount |-> layer_count, pixelWidth |-> width,
                pixelHeight |-> height,
                layers |-> [i \in 1..layer_count |-> LayerEntryName(i - 1)]])>>

\* what create_anycubic_archive does: opened says whether the container was
\* opened at the output path, entries what was written into it
create_anycubic_archive(fld, width, height, layer_thickness, template) ==
    LET layer_count == Cardinality(DOMAIN fld)
    IN IF template = "missing"
       THEN [status |-> "FileNotFoundError", opened |-> FALSE, entries |-> <<>>]
       ELSE IF layer_count = 0
       THEN [status |-> "RuntimeError", opened |-> FALSE, entries |-> <<>>]
       ELSE
        LET head == AnycubicHead(template, layer_count, width, height,
                                 layer_thickness)
            bad == {i \in 0..(layer_count - 1) : LayerFails(fld, i, width, height)}
            stop == IF bad = {} THEN layer_count
                    ELSE CHOOSE i \in bad : \A j \in bad : i <= j
            layers == AsSeq([k \in 1..stop |->
                         Entry(LayerEntryName(k - 1),
                               [bytes |-> encode_pw0_image(fld[Fmt04(k - 1)],
                                                           width, height, 0, 0)])])
        IN IF bad # {}
           THEN [status |-> IF Fmt04(stop) \notin DOMAIN fld
                            THEN "FileNotFoundError" ELSE "ValueError",
                 opened |-> TRUE, entries |-> head \o layers]
           ELSE [status |-> "ok", opened |-> TRUE,
                 entries |-> head \o layers
                     \o AnycubicTail(fld, template, layer_count, width, height)]

Templates == {"none", "missing", "full"}

CreateAnycubicArchive(width, height, layer_thickness, template) ==
    /\ LET a == create_anycubic_archive(folder, width, height, layer_thickness,
                                        template)
       IN /\ pm7m_file' = IF a.opened THEN Written(a.entries) ELSE pm7m_file
          /\ result' = [op |-> "anycubic",
                        status |-> IF a.status = "ok" THEN "ok" ELSE "error",
                        job |-> NoJob]
    /\ ops' = ops + 1
    /\ UNCHANGED <<folder, ctb_file, run, codecVars, libVars, sampleVars>>

----------------------------------------------------------------------------
(* implicit.py : main, command "slice" *)

\* generate_png_slices into the slice folder, then wrap_to_ctb of that folder
\* with the resolution and the thickness of the run; an error of the first
\* call ends the command
SliceCommand(doc, layer_thickness, res_x, res_y) ==
    /\ NumLayers(doc.zmin, doc.zmax, layer_thickness) <= MaxLayers
    /\ LET r == generate_png_slices(doc, layer_thickness, res_x, res_y)
           fld == SaveSlices(folder, r)
           a == create_ctb_archive(fld, res_x, res_y, layer_thickness, NoPreview)
       IN /\ run' = r
          /\ folder' = fld
          /\ ctb_file' = IF r.status = "ok" /\ a.status = "ok"
                         THEN Written(a.entries) ELSE ctb_file
          /\ result' = [op |-> "slice",
                        status |-> IF r.status = "ok" /\ a.status = "ok"
                                   THEN "ok" ELSE "error",
                        job |-> Job(doc, layer_thickness)]
    /\ ops' = ops + 1
    /\ UNCHANGED <<pm7m_file, codecVars, libVars, sampleVars>>

----------------------------------------------------------------------------
(* The pipeline: slicing runs, archive exports and the user's deletions    *)
(* on one slice folder                                                     *)

\* someone deletes one slice image from the folder
RemoveSlice(nm) ==
    /\ nm \in DOMAIN folder
    /\ folder' = [x \in (DOMAIN folder) \ {nm} |-> folder[x]]
    /\ result' = [op |-> "remove", status |-> "ok", job |-> NoJob]
    /\ ops' = ops + 1
    /\ UNCHANGED <<ctb_file, pm7m_file, run, codecVars, libVars, sampleVars>>

\* the slicing jobs of the pipeline: document and layer thickness
PipeJobs ==
    { [doc |-> FlatDoc("sphere", 0, 2), t |-> 1],
      [doc |-> NodeDoc(<<"Mesh">>, 0, 1), t |-> 1],
      [doc |-> NodeDoc(<<"Sphere">>, 0, 1), t |-> 1] }

\* resolutions of the pipeline: res_x, res_y
PipeRes == { <<8, 1>>, <<8, 2>> }

Init ==
    /\ image = NoImage
    /\ raw_bits = <<>>
    /\ payload = <<>>
    /\ pc = "idle"
    /\ PipeIdle

DoGenerate ==
    /\ ops < MaxOps
    /\ \E j \in PipeJobs, res \in PipeRes :
        GeneratePngSlices(j.doc, j.t, res[1], res[2])

DoSlice ==
    /\ ops < MaxOps
    /\ \E j \in PipeJobs, res \in PipeRes :
        SliceCommand(j.doc, j.t, res[1], res[2])

DoCtb ==
    /\ ops < MaxOps
    /\ \E res \in PipeRes, preview \in Previews :
        CreateCtbArchive(res[1], res[2], 1, preview)

DoAnycubic ==
    /\ ops < MaxOps
    /\ \E res \in PipeRes, template \in Templates :
        CreateAnycubicArchive(res[1], res[2], 1, template)

DoRemove ==
    /\ ops < MaxOps
    /\ \E nm \in DOMAIN folder : RemoveSlice(nm)

Next ==
    \/ DoGenerate
    \/ DoSlice
    \/ DoCtb
    \/ DoAnycubic
    \/ DoRemove

Spec == Init /\ [][Next]_vars

----------------------------------------------------------------------------
(* Reading a written archive back *)

\* the data of the entry called nm in the container f
EntryData(f, nm) ==
    (CHOOSE e \in {f.entries[i] : i \in 1..Len(f.entries)} : e.name = nm).data

HasEntry(f, nm) == \E i \in 1..Len(f.entries) : f.entries[i].name = nm

\* the k-th little-endian uint32 of bytes, k counted from 0
ReadU32(bytes, k) ==
    bytes[4*k + 1] + 256 * bytes[4*k + 2] + 65536 * bytes[4*k + 3]
        + 16777216 * bytes[4*k + 4]

\* the layer payload entries of the container f
LayerEntries(f) ==
    {i \in 1..Len(f.entries) :
        f.entries[i].name.file = "layer_images/layer_.pw0Img"}

\* the bits of a slice image as Image.convert("1") thresholds them
SliceBits(img) == [k \in 1..Len(img.px) |-> IF img.px[k] >= 128 THEN 1 ELSE 0]

\* some index below the number of slice files has no slice_{i:04d}.png
HasGap(fld) ==
    \E i \in 0..(Cardinality(DOMAIN fld) - 1) : Fmt04(i) \notin DOMAIN fld

\* C4: in every archive create_ctb_archive has written, the layer index table
\* holds layer_count + 1 offsets, offsets[0] = 0, and offsets[k] - offsets[k-1]
\* is the byte length of the payload entry of layer k - 1, for 1 <= k <=
\* layer_count
C4_OffsetTable ==
    ctb_file.exists =>
        LET n == EntryData(ctb_file, FileName("header.bin")).layer_count
            table == EntryData(ctb_file, FileName("layer_index_table.bin")).bytes
        IN /\ Len(table) = 4 * (n + 1)
           /\ ReadU32(table, 0) = 0
           /\ \A k \in 1..n :
                /\ HasEntry(ctb_file, LayerEntryName(k - 1))
                /\ ReadU32(table, k) - ReadU32(table, k - 1)
                     = Len(EntryData(ctb_file, LayerEntryName(k - 1)).bytes)

\* an archive of three layers has been written
C4_Witness ==
    /\ ctb_file.exists
    /\ EntryData(ctb_file, FileName("header.bin")).layer_count = 3
    /\ ReadU32(EntryData(ctb_file, FileName("layer_index_table.bin")).bytes, 3) > 0

\* C5: when create_ctb_archive or create_anycubic_archive ends with an error,
\* what is at the output paths is what was there before the call: no file the
\* call created or modified is left
C5_NoPartialArchive ==
    [][(result'.op \in {"ctb", "anycubic"} /\ result'.status = "error")
          => (ctb_file' = ctb_file /\ pm7m_file' = pm7m_file)]_vars

\* C6: on a folder without slice images both create_ctb_archive and
\* create_anycubic_archive end with an error and leave the output paths as
\* they were
C6_EmptyFolderIsError ==
    [][(result'.op \in {"ctb", "anycubic"} /\ DOMAIN folder = {})
          => /\ result'.status = "error"
             /\ ctb_file' = ctb_file
             /\ pm7m_file' = pm7m_file]_vars

\* create_ctb_archive was called on the empty folder, raised, and there is
\* no archive at its output path
C6_Witness ==
    /\ result.op = "ctb"
    /\ DOMAIN folder = {}
    /\ result.status = "error"
    /\ ~ctb_file.exists

\* C7: an export from a folder in which slice_{i:04d}.png is absent for some
\* i below the number of slice files fails, for both backends
C7_GapIsError ==
    (result.op \in {"ctb", "anycubic"} /\ HasGap(folder))
        => result.status = "error"

\* C8: after a successful slice command the archive holds exactly the layers
\* of that run in index order: the header layer count is the run's num_layers,
\* the offset table has num_layers + 1 entries, there are num_layers payload
\* entries, and the payload of layer i expands to the run's slice i, whatever
\* else the folder held
C8_ArchiveIsThisRun ==
    (result.op = "slice" /\ result.status = "ok") =>
        /\ ctb_file.exists
        /\ EntryData(ctb_file, FileName("header.bin")).layer_count
             = run.num_layers
        /\ Len(EntryData(ctb_file, FileName("layer_index_table.bin")).bytes)
             = 4 * (run.num_layers + 1)
        /\ Cardinality(LayerEntries(ctb_file)) = run.num_layers
        /\ \A i \in 0..(run.num_layers - 1) :
             /\ HasEntry(ctb_file, LayerEntryName(i))
             /\ ExpandCtb(EntryData(ctb_file, LayerEntryName(i)).bytes)
                  = SliceBits(run.layers[i + 1])

\* C28: in every archive create_anycubic_archive writes, the count of
\* layers_controller.conf and the number of its paras entries equal the number
\* of layer_images entries, the layerCount of scene.slice and the layer_count
\* of print_info.json, also when a template archive is supplied
C28_LayerCountsAgree ==
    (result.op = "anycubic" /\ result.status = "ok") =>
        LET n == Cardinality(LayerEntries(pm7m_file))
            ctl == EntryData(pm7m_file, FileName("layers_controller.conf"))
        IN /\ ctl.count = n
           /\ Len(ctl.paras) = n
           /\ EntryData(pm7m_file, FileName("scene.slice")).layerCount = n
           /\ EntryData(pm7m_file, FileName("print_info.json")).layer_count = n

----------------------------------------------------------------------------
(* One layer of create_ctb_archive: the slice image through Pillow's 1-bit *)
(* packing into rle_encode_ctb *)

LayerWidths == (1..MaxW) \cup {8, 9}

\* a slice image of 0 and 255 pixels; raw_bits = im.convert("1").tobytes()
LayerInit ==
    /\ \E w \in LayerWidths, h \in 1..MaxH, s \in {0, 1},
          T \in SUBSET (1..MaxToggle) :
          LET img == [w |-> w, h |-> h,
                      px |-> [i \in 1..(w * h) |->
                                 255 * ToggleBitmap(w * h, s, T)[i]]]
          IN /\ image = img
             /\ raw_bits = PilPack1(img)
    /\ payload = <<>>
    /\ pc = "input"
    /\ PipeIdle

\* rle_data = rle_encode_ctb(raw_bits, pixel_x, pixel_y)
LayerNext ==
    \/ RleEncode

SpecLayer == LayerInit /\ [][LayerNext]_vars

\* C26: the bit rle_encode_ctb reads for pixel (x, y), bit index y*width + x
\* of the packed bytes create_ctb_archive hands it, is the slice image's pixel
\* (x, y), for every width, those that are no multiple of 8 included
C26_BitIsPixel ==
    pc = "encoded" =>
        \A y \in 0..(image.h - 1), x \in 0..(image.w - 1) :
            ReadBit(raw_bits, y * image.w + x)
                = SliceBits(image)[y * image.w + x + 1]

\* the position of the first layer payload entry of the container f
PayloadStart(f) ==
    IF Len(f.entries) >= 4
       /\ f.entries[4].name = FileName("preview_images/preview_0.png")
    THEN 5 ELSE 4

\* C21: create_ctb_archive writes header.bin, layer_index_table.bin and
\* layer_filenames.tbl first and in that order, then
\* preview_images/preview_0.png only when a preview exists, then the layer
\* payloads in ascending layer index, none of them before the three tables;
\* the i-th name of the filename table is the entry name of the i-th payload
C21_EntryOrder ==
    (result.op = "ctb" /\ result.status = "ok") =>
        LET e == ctb_file.entries
            first == PayloadStart(ctb_file)
            n == Len(e) - first + 1
        IN /\ Len(e) >= 3
           /\ e[1].name = FileName("header.bin")
           /\ e[2].name = FileName("layer_index_table.bin")
           /\ e[3].name = FileName("layer_filenames.tbl")
           /\ first = 5 => result.preview.exists
           /\ n = e[1].data.layer_count
           /\ Len(e[3].data.names) = n
           /\ \A i \in 1..n :
                /\ e[first + i - 1].name = LayerEntryName(i - 1)
                /\ e[3].data.names[i] = e[first + i - 1].name

\* an archive of two layers or more written with its preview
C21_Witness ==
    /\ result.op = "ctb"
    /\ result.status = "ok"
    /\ PayloadStart(ctb_file) = 5
    /\ Len(ctb_file.entries) >= 6

----------------------------------------------------------------------------
(* loader.py : the node-graph evaluator *)

RMin(a, b) == IF RLt(b, a) THEN b ELSE a
RNeg(a) == Rat(-a.n, a.d)

\* math.sqrt of a rational that is the square of a rational; the points and
\* the parameters of the model are chosen so that every root taken is one
RSqrt(a) ==
    Rat(CHOOSE r \in 0..(RAbs(a).n + 1) : r * r = a.n,
        CHOOSE r \in 1..(a.d + 1) : r * r = a.d)

\* math.cos(2*math.pi*x/c) for x a whole number of quarter periods of c
Cos2Pi(x, c) ==
    LET q == CHOOSE k \in (-4 * (RAbs(x).n + 1))..(4 * (RAbs(x).n + 1)) :
                 k * x.d * c = 4 * x.n
    IN RInt(<<1, 0, -1, 0>>[(q % 4) + 1])

\* a point (x, y, z)
Pt(x, y, z) == [x |-> x, y |-> y, z |-> z]

\* cube_field: max(abs(x), abs(y), abs(z)) - size/2.0
cube_field(pt, size) ==
    RSub(RMax(RAbs(pt.x), RMax(RAbs(pt.y), RAbs(pt.z))), Rat(size, 2))

\* sphere_field: math.sqrt(x*x + y*y + z*z) - radius
sphere_field(pt, radius) ==
    RSub(RSqrt(RAdd(Sq(pt.x), RAdd(Sq(pt.y), Sq(pt.z)))), RInt(radius))

\* cylinder_field: max(math.sqrt(x*x + y*y) - radius, abs(z) - height/2.0)
cylinder_field(pt, radius, height) ==
    RMax(RSub(RSqrt(RAdd(Sq(pt.x), Sq(pt.y))), RInt(radius)),
         RSub(RAbs(pt.z), Rat(height, 2)))

\* gyroid_field: cos(2 pi x/cx) + cos(2 pi y/cy) + cos(2 pi z/cz)
gyroid_field(pt, cell_size) ==
    RAdd(Cos2Pi(pt.x, cell_size[1]),
         RAdd(Cos2Pi(pt.y, cell_size[2]), Cos2Pi(pt.z, cell_size[3])))

\* signed_dist of a loaded mesh: the mesh collaborator's answer, negative
\* inside; every mesh of the model is the block MeshBlock and the collaborator
\* answers with the largest of the distances to its faces along the axes
signed_dist(pt) ==
    RMax(RMax(RSub(RInt(MeshBlock.x0), pt.x), RSub(pt.x, RInt(MeshBlock.x1))),
    RMax(RMax(RSub(RInt(MeshBlock.y0), pt.y), RSub(pt.y, RInt(MeshBlock.y1))),
         RMax(RSub(RInt(MeshBlock.z0), pt.z), RSub(pt.z, RInt(MeshBlock.z1)))))

\* the params of the nodes of the model, by parameter name
NodeParams ==
    [size |-> 2, radius |-> 1, height |-> 2, translate |-> <<0, 0, 1>>,
     cell_size |-> <<4, 4, 4>>, thickness |-> 1]

\* a node {"id", "type", "inputs", "params": {"filename"}}
Node(id, type, inputs, filename) ==
    [id |-> id, type |-> type, inputs |-> inputs, filename |-> filename]

RecursionLimit == 8    \* frames the interpreter allows before RecursionError

\* outcome of an evaluation: how it ended, the value returned, the deepest
\* frame entered and the mesh paths handed to get_mesh_signed_distance
Returns(v, depth, meshes) ==
    [status |-> "ok", value |-> v, depth |-> depth, meshes |-> meshes]
Raises(err, depth, meshes) ==
    [status |-> err, value |-> RInt(0), depth |-> depth, meshes |-> meshes]

\* the second operand of a two-input node is evaluated after the first has
\* returned; an error of the first ends the call
UnionOp(a, b) == RMin(a, b)
SubtractOp(a, b) == RMax(a, RNeg(b))
IntersectOp(a, b) == RMax(a, b)

\* min(...), max(..., -...) or max(...) of the node type t
Combine(t, a, b) ==
    IF t = "Union" THEN UnionOp(a, b)
    ELSE IF t = "Subtract" THEN SubtractOp(a, b)
    ELSE IntersectOp(a, b)

RECURSIVE evaluate_node(_, _, _, _)
EvalPair(ins, nodes_map, pt, depth, t) ==
    IF Len(ins) < 1 THEN Raises("IndexError", depth, <<>>)
    ELSE LET a == evaluate_node(ins[1], nodes_map, pt, depth + 1)
         IN IF a.status # "ok" THEN a
            ELSE IF Len(ins) < 2 THEN Raises("IndexError", a.depth, a.meshes)
            ELSE LET b == evaluate_node(ins[2], nodes_map, pt, depth + 1)
                 IN IF b.status # "ok"
                    THEN Raises(b.status, Max(a.depth, b.depth),
                                a.meshes \o b.meshes)
                    ELSE Returns(Combine(t, a.value, b.value),
                                 Max(a.depth, b.depth), a.meshes \o b.meshes)

\* evaluate_node(node_id, nodes_map, x, y, z), entered as frame number depth
evaluate_node(node_id, nodes_map, pt, depth) ==
    IF depth > RecursionLimit THEN Raises("RecursionError", depth, <<>>)
    ELSE IF node_id \notin DOMAIN nodes_map THEN Raises("KeyError", depth, <<>>)
    ELSE
    LET node == nodes_map[node_id]
        t == node.type
        ins == node.inputs
    IN IF t = "Cube" THEN Returns(cube_field(pt, NodeParams.size), depth, <<>>)
       ELSE IF t = "Sphere"
       THEN Returns(sphere_field(pt, NodeParams.radius), depth, <<>>)
       ELSE IF t = "Cylinder"
       THEN Returns(cylinder_field(pt, NodeParams.radius, NodeParams.height),
                    depth, <<>>)
       ELSE IF t = "Transform"
       THEN IF Len(ins) < 1 THEN Raises("IndexError", depth, <<>>)
            ELSE evaluate_node(ins[1], nodes_map,
                     Pt(RSub(pt.x, RInt(NodeParams.translate[1])),
                        RSub(pt.y, RInt(NodeParams.translate[2])),
                        RSub(pt.z, RInt(NodeParams.translate[3]))),
                     depth + 1)
       ELSE IF t \in {"Union", "Subtract", "Intersect"}
       THEN EvalPair(ins, nodes_map, pt, depth, t)
       ELSE IF t = "Lattice"
       THEN Returns(RSub(RAbs(gyroid_field(pt, NodeParams.cell_size)),
                         RInt(NodeParams.thickness)), depth, <<>>)
       ELSE IF t = "Mesh"
       THEN Returns(signed_dist(pt), depth, <<node.filename>>)
       ELSE Raises("ValueError", depth, <<>>)

\* nm = {n['id']: n for n in nodes}: the last node of an id is the one kept
NodesMap(nodes) ==
    [id \in {nodes[k].id : k \in 1..Len(nodes)} |->
        nodes[CHOOSE k \in 1..Len(nodes) :
                 /\ nodes[k].id = id
                 /\ \A j \in (k + 1)..Len(nodes) : nodes[j].id # id]]

\* build_evaluator(nodes)(x, y, z): the root is the last node
build_evaluator(nodes, pt) ==
    evaluate_node(nodes[Len(nodes)].id, NodesMap(nodes), pt, 1)

get_mesh_signed_distance_NoCache(cache, loads, path) ==
    [cache |-> cache \cup {path},
     loads |-> [loads EXCEPT ![path] = @ + 1]]

\* functools.lru_cache(maxsize=None) around the loading function: the body,
\* and with it trimesh.load, runs only for a path that has no cached result
get_mesh_signed_distance(cache, loads, path) ==
    IF path \in cache THEN [cache |-> cache, loads |-> loads]
    ELSE [cache |-> cache \cup {path},
          loads |-> [loads EXCEPT ![path] = @ + 1]]

\* the cache after the Mesh evaluations of one call, in their order
RECURSIVE MeshCalls(_, _, _)
MeshCalls(cache, loads, paths) ==
    IF paths = <<>> THEN [cache |-> cache, loads |-> loads]
    ELSE LET c == get_mesh_signed_distance(cache, loads, Head(paths))
         IN MeshCalls(c.cache, c.loads, Tail(paths))

\* the type strings of the wire contract's node list
WireNodeTypes ==
    {"Cube", "Box", "Sphere", "Cylinder", "Torus", "Transform", "Union",
     "Intersect", "Subtract", "Lattice", "Mesh"}

Leaf(id, type) == Node(id, type, <<>>, "")
MeshNode(id, path) == Node(id, "Mesh", <<>>, path)

\* node lists whose inputs all exist and whose root reaches no node twice
\* along one path
TreeGraphs ==
    {<<Leaf("a", t)>> :
        t \in {"Cube", "Box", "Sphere", "Cylinder", "Torus", "Lattice", "Cone"}}
    \cup {<<Leaf("a", "Cube"), Leaf("b", "Sphere"), Node("c", t, <<"a", "b">>, "")>> :
        t \in {"Union", "Intersect", "Subtract"}}
    \cup {<<Leaf("a", t), Node("b", "Transform", <<"a">>, "")>> :
        t \in {"Sphere", "Torus"}}
    \cup {<<MeshNode("a", p)>> : p \in MeshPaths}
    \cup {<<MeshNode("a", p), MeshNode("b", q), Node("c", "Union", <<"a", "b">>, "")>> :
        p \in MeshPaths, q \in MeshPaths}

\* node lists in which the root reaches itself again
CyclicGraphs ==
    {<<Node("a", "Transform", <<"a">>, "")>>,
     <<Node("a", "Transform", <<"b">>, ""), Node("b", "Transform", <<"a">>, "")>>,
     <<Leaf("a", "Cube"), Node("b", "Union", <<"a", "b">>, "")>>,
     <<MeshNode("a", "part.stl"), Node("b", "Intersect", <<"a", "c">>, ""),
       Node("c", "Transform", <<"b">>, "")>>}

Graphs == TreeGraphs \cup CyclicGraphs

\* sample points, on the z axis
EvalPoints == {Pt(RInt(0), RInt(0), RInt(z)) : z \in {-1, 0, 1, 2}}

MaxCalls == 2

\* one call eval_fn(x, y, z) of the evaluator built from a node list
EvaluateNode ==
    /\ calls < MaxCalls
    /\ \E nodes \in Graphs, pt \in EvalPoints :
          LET r == build_evaluator(nodes, pt)
              c == MeshCalls(mesh_cache, mesh_loads, r.meshes)
          IN /\ call' = [fn |-> "evaluate_node", nodes |-> nodes, pt |-> pt,
                         status |-> r.status, value |-> r.value,
                         depth |-> r.depth, meshes |-> r.meshes]
             /\ mesh_cache' = c.cache
             /\ mesh_loads' = c.loads
             /\ mesh_requests' =
                    [p \in MeshPaths |->
                        mesh_requests[p]
                        + Cardinality({k \in 1..Len(r.meshes) : r.meshes[k] = p})]
    /\ calls' = calls + 1
    /\ UNCHANGED <<codecVars, pipeVars, sampleVars>>

\* the ids named as inputs by the node id
InputsOf(nodes, id) ==
    UNION {{nodes[j].inputs[m] : m \in 1..Len(nodes[j].inputs)} :
              j \in {i \in 1..Len(nodes) : nodes[i].id = id}}

\* the ids reached from ids through at most k input references
RECURSIVE ReachFrom(_, _, _)
ReachFrom(nodes, ids, k) ==
    IF k = 0 THEN ids
    ELSE ReachFrom(nodes, ids \cup UNION {InputsOf(nodes, i) : i \in ids}, k - 1)

\* the root reaches a node that is its own (indirect) input
Cyclic(nodes) ==
    \E id \in ReachFrom(nodes, {nodes[Len(nodes)].id}, Len(nodes)) :
        id \in ReachFrom(nodes, InputsOf(nodes, id), Len(nodes))

\* C15: a node graph with a cycle is rejected with a cyclic-graph error, and
\* the evaluator never recurses without bound: it enters no more frames than
\* the graph has nodes
C15_CyclicGraphRejected ==
    (call.fn = "evaluate_node" /\ Cyclic(call.nodes)) =>
        /\ call.status = "CyclicGraphError"
        /\ call.depth <= Len(call.nodes)

\* C16: evaluate_node returns a field value for a node of each type of the
\* wire contract (Cube, Box, Sphere, Cylinder, Torus, Transform, Union,
\* Intersect, Subtract, Lattice, Mesh) and raises the unsupported-node-type
\* error for exactly the other type strings
C16_NodeTypes ==
    (call.fn = "evaluate_node" /\ ~Cyclic(call.nodes)) =>
        IF \A k \in 1..Len(call.nodes) : call.nodes[k].type \in WireNodeTypes
        THEN call.status = "ok"
        ELSE call.status = "ValueError"

----------------------------------------------------------------------------
(* sampler.py : _build_sdf_eval on flat documents *)

\* math.sin(2*math.pi*x/c) for x a whole number of quarter periods of c
Sin2Pi(x, c) ==
    LET q == CHOOSE k \in (-4 * (RAbs(x).n + 1))..(4 * (RAbs(x).n + 1)) :
                 k * x.d * c = 4 * x.n
    IN RInt(<<0, 1, 0, -1>>[(q % 4) + 1])

\* the "sdf" entries of the flat documents of the model, by key
SdfMeta ==
    [center |-> <<0, 0, 0>>, radius |-> SphereRadius,
     box_center |-> <<0, BoxCentreY, 0>>,
     halfwidths |-> <<BoxHalf, BoxHalf, BoxHalf>>,
     cell_size |-> 4, thickness |-> 1]

\* a flat document {"sdf": {"kind": kind, "inputs": [...]}}; inputs are the
\* documents load_ifg returns for the paths listed
SimpleDoc(kind, inputs) == [kind |-> kind, inputs |-> inputs]

\* eval_fn of kind sphere
SphereEval(pt) ==
    LET dx == RSub(pt.x, RInt(SdfMeta.center[1]))
        dy == RSub(pt.y, RInt(SdfMeta.center[2]))
        dz == RSub(pt.z, RInt(SdfMeta.center[3]))
    IN RSub(RSqrt(RAdd(Sq(dx), RAdd(Sq(dy), Sq(dz)))), RInt(SdfMeta.radius))

\* the sum of squares under the root of outside_dist, for a box of centre c
\* and halfwidths h, both triples of rationals
BoxOutsideSq(c, h, pt) ==
    LET ux == RMax(RSub(RAbs(RSub(pt.x, c[1])), h[1]), RInt(0))
        uy == RMax(RSub(RAbs(RSub(pt.y, c[2])), h[2]), RInt(0))
        uz == RMax(RSub(RAbs(RSub(pt.z, c[3])), h[3]), RInt(0))
    IN RAdd(Sq(ux), RAdd(Sq(uy), Sq(uz)))

\* eval_fn of kind box with "center" c and "halfwidths" h
BoxField(c, h, pt) ==
    LET dx == RSub(RAbs(RSub(pt.x, c[1])), h[1])
        dy == RSub(RAbs(RSub(pt.y, c[2])), h[2])
        dz == RSub(RAbs(RSub(pt.z, c[3])), h[3])
        outside_dist == RSqrt(BoxOutsideSq(c, h, pt))
        inside_dist == RMin(RMax(dx, RMax(dy, dz)), RInt(0))
    IN RAdd(outside_dist, inside_dist)

\* eval_fn of kind box for the box of the model's documents
BoxEval(pt) ==
    BoxField(<<RInt(SdfMeta.box_center[1]), RInt(SdfMeta.box_center[2]),
               RInt(SdfMeta.box_center[3])>>,
             <<RInt(SdfMeta.halfwidths[1]), RInt(SdfMeta.halfwidths[2]),
               RInt(SdfMeta.halfwidths[3])>>, pt)

\* eval_fn of kind gyroid, cell_size a single number
GyroidEval(pt) ==
    LET c == SdfMeta.cell_size
        gy == RAdd(RMul(Sin2Pi(pt.x, c), Cos2Pi(pt.y, c)),
              RAdd(RMul(Sin2Pi(pt.y, c), Cos2Pi(pt.z, c)),
                   RMul(Sin2Pi(pt.z, c), Cos2Pi(pt.x, c))))
    IN RSub(RAbs(gy), RInt(SdfMeta.thickness))

\* _build_sdf_eval(doc) of a flat document: the kinds it resolves, the
\* children of a boolean kind being built first, in the order of inputs
RECURSIVE build_sdf_eval(_)
build_sdf_eval(doc) ==
    IF doc.kind \in {"sphere", "box", "gyroid"}
    THEN [status |-> "ok", kind |-> doc.kind, child_evals |-> <<>>]
    ELSE IF doc.kind \in {"union", "intersect", "subtract"}
    THEN LET built == [k \in 1..Len(doc.inputs) |-> build_sdf_eval(doc.inputs[k])]
         IN IF \E k \in 1..Len(built) : built[k].status # "ok"
            THEN [status |-> built[CHOOSE k \in 1..Len(built) :
                                     /\ built[k].status # "ok"
                                     /\ \A j \in 1..(k - 1) : built[j].status = "ok"].status,
                  kind |-> doc.kind, child_evals |-> <<>>]
            ELSE [status |-> "ok", kind |-> doc.kind, child_evals |-> built]
    ELSE [status |-> "ValueError", kind |-> doc.kind, child_evals |-> <<>>]

\* the value the evaluator returned by _build_sdf_eval gives at a point
RECURSIVE sdf_eval(_, _)
FoldEval(child_evals, pt, kind) ==
    LET vals == [k \in 1..Len(child_evals) |-> sdf_eval(child_evals[k], pt)]
        acc[k \in 1..Len(vals)] ==
            IF k = 1 THEN vals[1].value
            ELSE IF kind = "union" THEN RMin(acc[k - 1], vals[k].value)
            ELSE RMax(acc[k - 1], vals[k].value)
    IN IF Len(vals) = 0 THEN [status |-> "ValueError", value |-> RInt(0)]
       ELSE [status |-> "ok", value |-> acc[Len(vals)]]

sdf_eval(f, pt) ==
    IF f.kind = "sphere" THEN [status |-> "ok", value |-> SphereEval(pt)]
    ELSE IF f.kind = "box" THEN [status |-> "ok", value |-> BoxEval(pt)]
    ELSE IF f.kind = "gyroid" THEN [status |-> "ok", value |-> GyroidEval(pt)]
    ELSE IF f.kind = "union" THEN FoldEval(f.child_evals, pt, "union")
    ELSE IF f.kind = "intersect" THEN FoldEval(f.child_evals, pt, "intersect")
    ELSE IF Len(f.child_evals) < 2
         THEN [status |-> "IndexError", value |-> RInt(0)]
         ELSE [status |-> "ok",
               value |-> RMax(sdf_eval(f.child_evals[1], pt).value,
                              RNeg(sdf_eval(f.child_evals[2], pt).value))]

\* the kinds the command line writes into flat documents, and one it does not
LeafKinds == {"sphere", "box", "gyroid", "mesh", "cylinder", "torus", "schwarz_p", "cone"}

SimpleDocs ==
    {SimpleDoc(k, <<>>) : k \in LeafKinds}
    \cup {SimpleDoc(k, <<SimpleDoc(a, <<>>), SimpleDoc(b, <<>>)>>) :
            k \in {"union", "intersect", "subtract"},
            a \in {"sphere", "box"}, b \in {"sphere", "mesh"}}

\* the kinds of the wire contract's list for flat documents
WireKinds == {"sphere", "box", "gyroid", "union", "intersect", "subtract", "mesh"}

\* the kinds of a document and of the documents it lists as inputs
RECURSIVE KindsOf(_)
KindsOf(doc) ==
    {doc.kind} \cup UNION {KindsOf(doc.inputs[k]) : k \in 1..Len(doc.inputs)}

\* eval_fn = _build_sdf_eval(doc) and, when that returns, eval_fn(x, y, z)
BuildSdfEval ==
    /\ calls < MaxCalls
    /\ \E doc \in SimpleDocs, pt \in EvalPoints :
          LET f == build_sdf_eval(doc)
              v == IF f.status = "ok" THEN sdf_eval(f, pt)
                   ELSE [status |-> "none", value |-> RInt(0)]
          IN call' = [fn |-> "_build_sdf_eval", doc |-> doc, pt |-> pt,
                      status |-> f.status, eval_status |-> v.status,
                      value |-> v.value]
    /\ calls' = calls + 1
    /\ UNCHANGED <<mesh_cache, mesh_loads, mesh_requests>>
    /\ UNCHANGED <<codecVars, pipeVars, sampleVars>>

\* C17: _build_sdf_eval resolves the flat kinds sphere, box, gyroid, union,
\* intersect, subtract and mesh to an evaluator, and raises the
\* unsupported-kind error for the other kinds
C17_FlatKinds ==
    call.fn = "_build_sdf_eval" =>
        IF KindsOf(call.doc) \subseteq WireKinds
        THEN call.status = "ok"
        ELSE call.status = "ValueError"

----------------------------------------------------------------------------
(* implicit_core/lattice/periodic.py : the periodic lattice constructors *)

LatticeCtors == {"gyroid", "schwarz_p", "diamond"}

\* _sdf(x, y, z) of the field a constructor returns; inv_lambda * x is
\* 2*pi*x/cell_size
LatticeValue(ctor, cell_size, thickness, pt) ==
    LET sx == Sin2Pi(pt.x, cell_size)
        sy == Sin2Pi(pt.y, cell_size)
        sz == Sin2Pi(pt.z, cell_size)
        cx == Cos2Pi(pt.x, cell_size)
        cy == Cos2Pi(pt.y, cell_size)
        cz == Cos2Pi(pt.z, cell_size)
        value ==
            IF ctor = "gyroid"
            THEN RAdd(RMul(sx, cy), RAdd(RMul(sy, cz), RMul(sz, cx)))
            ELSE IF ctor = "schwarz_p"
            THEN RAdd(cx, RAdd(cy, cz))
            ELSE RAdd(RMul(RMul(sx, sy), sz),
                 RAdd(RMul(RMul(sx, cy), cz),
                 RAdd(RMul(RMul(cx, sy), cz), RMul(RMul(cx, cy), sz))))
    IN RSub(value, RInt(thickness))

\* gyroid / schwarz_p / diamond (cell_size, thickness): the only statement
\* before the field is returned is inv_lambda = 2.0 * math.pi / cell_size
LatticeCtor(ctor, cell_size, thickness) ==
    IF cell_size = 0
    THEN [status |-> "ZeroDivisionError", returned |-> FALSE]
    ELSE [status |-> "ok", returned |-> TRUE]

CellSizes == {-4, -2, -1, 0, 1, 2, 4}
Thicknesses == {0, 1}

\* sdf_fn = ctor(cell_size, thickness) and, when that returns, sdf_fn(x, y, z)
MakeLattice ==
    /\ calls < MaxCalls
    /\ \E ctor \in LatticeCtors, cell_size \in CellSizes,
          thickness \in Thicknesses, pt \in EvalPoints :
          LET f == LatticeCtor(ctor, cell_size, thickness)
          IN call' = [fn |-> ctor, cell_size |-> cell_size,
                      thickness |-> thickness, pt |-> pt,
                      status |-> f.status, returned |-> f.returned,
                      value |-> IF f.returned
                                THEN LatticeValue(ctor, cell_size, thickness, pt)
                                ELSE RInt(0)]
    /\ calls' = calls + 1
    /\ UNCHANGED <<mesh_cache, mesh_loads, mesh_requests>>
    /\ UNCHANGED <<codecVars, pipeVars, sampleVars>>

\* C20: gyroid, schwarz_p and diamond reject every cell_size <= 0, zero as
\* well as negative, with an error at construction, and return no field for it
C20_CellSizeRejected ==
    (call.fn \in LatticeCtors /\ call.cell_size <= 0) =>
        /\ call.status # "ok"
        /\ ~call.returned

----------------------------------------------------------------------------
(* the same box through loader.py, sampler.py and implicit_core/primitives.py *)

\* primitives.box(center, half_widths)(x, y, z)
box(c, h, pt) ==
    LET dx == RSub(RAbs(RSub(pt.x, c[1])), h[1])
        dy == RSub(RAbs(RSub(pt.y, c[2])), h[2])
        dz == RSub(RAbs(RSub(pt.z, c[3])), h[3])
        outside_dist == RSqrt(BoxOutsideSq(c, h, pt))
        inside_dist == RMax(dx, RMax(dy, dz))
    IN IF RLt(RInt(0), outside_dist) THEN outside_dist ELSE inside_dist

\* a rational whose square root is rational
IsSquare(a) ==
    /\ \E r \in 0..(RAbs(a).n + 1) : r * r = a.n
    /\ \E r \in 1..(a.d + 1) : r * r = a.d

CubeSizes == {2, 4}
BoxCoords == {-5, 0, 1, 4, 5, 6}
Origin == <<RInt(0), RInt(0), RInt(0)>>

\* a Cube node of size s, a flat box document and primitives.box with centre
\* the origin and halfwidths s/2, sampled at one point; the points are those
\* of the grid at which the root taken by the box fields is rational
EvaluateBox ==
    /\ calls = 0
    /\ \E size \in CubeSizes, x \in BoxCoords, y \in BoxCoords, z \in BoxCoords :
          LET pt == Pt(RInt(x), RInt(y), RInt(z))
              h == <<Rat(size, 2), Rat(size, 2), Rat(size, 2)>>
          IN /\ IsSquare(BoxOutsideSq(Origin, h, pt))
             /\ call' = [fn |-> "box", size |-> size, pt |-> pt,
                         status |-> "ok",
                         node_value |-> cube_field(pt, size),
                         flat_value |-> BoxField(Origin, h, pt),
                         core_value |-> box(Origin, h, pt)]
    /\ calls' = calls + 1
    /\ UNCHANGED <<mesh_cache, mesh_loads, mesh_requests>>
    /\ UNCHANGED <<codecVars, pipeVars, sampleVars>>

\* C22: a graph Cube node of size s and a flat box descriptor centred at the
\* origin with halfwidths s/2 return equal values at every (x, y, z), inside
\* and outside the box
C22_CubeEqualsBox ==
    call.fn = "box" => REq(call.node_value, call.flat_value)

----------------------------------------------------------------------------
(* booleans over n operands: loader.py against implicit_core/booleans.py *)

\* min(...) and max(...) over a non-empty sequence of values
RECURSIVE MinOf(_)
MinOf(vals) ==
    IF Len(vals) = 1 THEN vals[1] ELSE RMin(vals[1], MinOf(Tail(vals)))
RECURSIVE MaxOf(_)
MaxOf(vals) ==
    IF Len(vals) = 1 THEN vals[1] ELSE RMax(vals[1], MaxOf(Tail(vals)))

\* booleans.union(*sdfs)(x, y, z), vals the values of the operands there
union(vals) == MinOf(vals)
\* booleans.intersect(*sdfs)(x, y, z)
intersect(vals) == MaxOf(vals)

MaxOperands == 3
OperandIds == <<"a", "b", "c", "d">>
OperandTypes == {"Sphere", "Lattice"}

\* the node list: one leaf per operand, then the boolean node over all of them
NaryGraph(t, types) ==
    [k \in 1..Len(types) |-> Leaf(OperandIds[k], types[k])]
    \o <<Node("u", t, [k \in 1..Len(types) |-> OperandIds[k]], "")>>

\* a Union or Intersect node over 1..MaxOperands leaves, evaluated by
\* evaluate_node, and booleans.union / booleans.intersect over the fields of
\* the same leaves
EvaluateNary ==
    /\ calls = 0
    /\ \E t \in {"Union", "Intersect"}, n \in 1..Min(MaxOperands, Len(OperandIds)),
          pt \in EvalPoints :
        \E types \in [1..n -> OperandTypes] :
          LET nodes == NaryGraph(t, types)
              r == build_evaluator(nodes, pt)
              vals == [k \in 1..n |->
                         evaluate_node(OperandIds[k], NodesMap(nodes), pt, 1).value]
          IN call' = [fn |-> "nary", type |-> t, nodes |-> nodes, pt |-> pt,
                      n |-> n, status |-> r.status, node_value |-> r.value,
                      core_value |-> IF t = "Union" THEN union(vals)
                                     ELSE intersect(vals)]
    /\ calls' = calls + 1
    /\ UNCHANGED <<mesh_cache, mesh_loads, mesh_requests>>
    /\ UNCHANGED <<codecVars, pipeVars, sampleVars>>

\* C23: for a Union node with n >= 1 inputs evaluate_node returns the minimum
\* of the values of all n inputs, and for an Intersect node the maximum, as
\* union() and intersect() of booleans.py do for the same operands
C23_NaryBooleans ==
    call.fn = "nary" =>
        /\ call.status = "ok"
        /\ REq(call.node_value, call.core_value)

----------------------------------------------------------------------------
(* node-graph documents through build_evaluator *)

\* the node list of a document given by its node types: the Mesh node names
\* the block's file, a Transform takes the node before it, a boolean the first
\* node and the node before it
GraphOf(types) ==
    [k \in 1..Len(types) |->
        Node(OperandIds[k], types[k],
             IF types[k] = "Transform" THEN <<OperandIds[k - 1]>>
             ELSE IF types[k] \in {"Union", "Subtract", "Intersect"}
             THEN <<OperandIds[1], OperandIds[k - 1]>>
             ELSE <<>>,
             IF types[k] = "Mesh" THEN "benchy.stl" ELSE "")]

\* C24: for a node-graph document whose last node is not a Mesh node,
\* generate_png_slices returns, and every pixel of every layer is foreground
\* exactly when the root field built by build_evaluator is negative at the
\* pixel's sample point; this for every such graph, a single Sphere node
\* included
C24_DirectSamplingOfGraphs ==
    (/\ result.op = "generate"
     /\ result.job.form = "nodes"
     /\ result.job.nodes[Len(result.job.nodes)] # "Mesh") =>
        /\ run.status = "ok"
        /\ \A i \in 1..Len(run.layers) :
             LET img == run.layers[i]
             IN \A k \in 1..(img.w * img.h) :
                  LET ix == (k - 1) % img.w
                      iy == (k - 1) \div img.w
                      r == build_evaluator(GraphOf(result.job.nodes),
                               Pt(Linspace(XMin, XMax, img.w, ix),
                                  Linspace(YMin, YMax, img.h, iy),
                                  run.zs[i]))
                  IN /\ r.status = "ok"
                     /\ (img.px[k] = 255) <=> RLt(r.value, RInt(0))

\* C25: on the hybrid path a pixel of the final layer is foreground exactly
\* when (M and not M') or (G and M'): M and M' the rasterized cross-sections
\* at that z of the mesh and of its scaled copy, G the lattice mask
\* |gyroid| <= thickness on the same pixel grid, the grid on which pixel
\* (ix, iy) is the world point (WorldX, WorldY); without a Lattice node G is
\* empty and the layer is the shell
C25_ShellAndInfill ==
    (/\ result.op = "generate"
     /\ run.status = "ok"
     /\ result.job.form = "nodes"
     /\ result.job.nodes[Len(result.job.nodes)] # "Mesh") =>
        \A i \in 1..Len(run.layers) :
            LET img == run.layers[i]
                M == SectionMask(RInt(1), run.zs[i], img.w, img.h)
                Mp == SectionMask(ShrinkScale, run.zs[i], img.w, img.h)
            IN (img.w >= 2 /\ img.h >= 2) =>
               \A k \in 1..(img.w * img.h) :
                 LET ix == (k - 1) % img.w
                     iy == (k - 1) \div img.w
                     G == /\ HasNode(result.job, "Lattice")
                          /\ SurdAbsLe(HybridGyroid(WorldX(ix, img.w),
                                                    WorldY(iy, img.h), run.zs[i]),
                                       LatticeParams.thickness)
                 IN (img.px[k] = 255) <=>
                        \/ M[k] = 255 /\ Mp[k] # 255
                        \/ G /\ Mp[k] = 255

\* a gyroid "sdf" object whose thickness is <= 0
ThinGyroid(m) == m.kind = "gyroid" /\ m.thickness <= 0

\* the job of the last call is a flat gyroid document with thickness <= 0,
\* or a flat intersect document with one among its inputs
ThinGyroidJob ==
    /\ result.op = "generate"
    /\ result.job.form = "flat"
    /\ \/ ThinGyroid(result.job.sdf)
       \/ /\ result.job.sdf.kind = "intersect"
          /\ \E k \in 1..Len(result.job.sdf.inputs) :
                 ThinGyroid(result.job.sdf.inputs[k])

\* C29: the field of a flat gyroid document is abs(gy) - thickness, so when
\* thickness <= 0 it is >= 0 at every sample, and in every layer the slicer
\* writes for that document, or for an intersect document that has it among
\* its inputs, no pixel is foreground
C29_ThinGyroidIsEmpty ==
    (ThinGyroidJob /\ run.status = "ok") =>
        \A i \in 1..Len(run.layers) :
            /\ \A k \in 1..Len(run.layers[i].px) : run.layers[i].px[k] = 0
            /\ \A ix \in 0..(run.layers[i].w - 1),
                  iy \in 0..(run.layers[i].h - 1) :
                   SdfSign(result.job.sdf,
                           Linspace(XMin, XMax, run.layers[i].w, ix),
                           Linspace(YMin, YMax, run.layers[i].h, iy),
                           run.zs[i]) >= 0

\* a run on an intersect document with a thin gyroid among its inputs that
\* wrote several layers of several pixels
C29_Witness ==
    /\ ThinGyroidJob
    /\ result.job.sdf.kind = "intersect"
    /\ run.status = "ok"
    /\ run.num_layers >= 2
    /\ Len(run.layers[1].px) >= 4

LibInit ==
    /\ image = NoImage
    /\ raw_bits = <<>>
    /\ payload = <<>>
    /\ pc = "idle"
    /\ PipeIdle

LibNext ==
    \/ EvaluateNode
    \/ BuildSdfEval
    \/ MakeLattice

SpecLib == LibInit /\ [][LibNext]_vars

----------------------------------------------------------------------------
(* sampler.py : _build_sdf_eval on documents whose inputs are paths *)

\* the paths of the flat documents on disk, and a path no file has
DiskPaths == {"a.ifg", "b.ifg"}
MissingPath == "x.ifg"

\* the "sdf" object of a document on disk: its kind and the paths of inputs
DiskDocs ==
    { [kind |-> k, inputs |-> <<>>] : k \in {"sphere", "gyroid"} }
    \cup
    { [kind |-> k, inputs |-> ins] :
        k \in {"union", "intersect", "subtract"},
        ins \in { <<p>> : p \in DiskPaths \cup {MissingPath} }
                \cup
                { <<p, q>> : p, q \in DiskPaths \cup {MissingPath} } }

\* the documents on disk, by path
Disks == [DiskPaths -> DiskDocs]

\* json.load of the file at path
load_ifg(disk, path) == disk[path]

\* how a build ended, the deepest frame of _build_sdf_eval entered and the
\* number of calls of load_ifg
Built(status, depth, loads) ==
    [status |-> status, depth |-> depth, loads |-> loads]

RECURSIVE build_from_disk(_, _, _)
RECURSIVE BuildInputs(_, _, _, _)

\* for inp in inputs: child_doc = load_ifg(inp);
\* child_evals.append(_build_sdf_eval(child_doc)), from the k-th input on
BuildInputs(disk, inputs, k, depth) ==
    IF k > Len(inputs) THEN Built("ok", depth, 0)
    ELSE IF inputs[k] \notin DOMAIN disk
    THEN Built("FileNotFoundError", depth, 1)
    ELSE LET r == build_from_disk(disk, load_ifg(disk, inputs[k]), depth + 1)
         IN IF r.status # "ok" THEN Built(r.status, r.depth, r.loads + 1)
            ELSE LET rest == BuildInputs(disk, inputs, k + 1, depth)
                 IN Built(rest.status,
                          IF r.depth >= rest.depth THEN r.depth ELSE rest.depth,
                          r.loads + 1 + rest.loads)

\* _build_sdf_eval(doc) in frame depth: the interpreter raises RecursionError
\* in a frame beyond RecursionLimit
build_from_disk(disk, doc, depth) ==
    IF depth > RecursionLimit THEN Built("RecursionError", depth, 0)
    ELSE IF doc.kind \in {"sphere", "box", "gyroid"}
    THEN Built("ok", depth, 0)
    ELSE IF doc.kind \in {"union", "intersect", "subtract"}
    THEN BuildInputs(disk, doc.inputs, 1, depth)
    ELSE Built("ValueError", depth, 0)

\* _build_sdf_eval(load_ifg(path)) for a document on disk
BuildFromDisk ==
    /\ calls = 0
    /\ \E disk \in Disks, path \in DiskPaths :
          LET r == build_from_disk(disk, load_ifg(disk, path), 1)
          IN call' = [fn |-> "_build_sdf_eval", disk |-> disk, path |-> path,
                      status |-> r.status, depth |-> r.depth,
                      loads |-> r.loads]
    /\ calls' = calls + 1
    /\ UNCHANGED <<mesh_cache, mesh_loads, mesh_requests>>
    /\ UNCHANGED <<codecVars, pipeVars, sampleVars>>

\* the paths the documents at the paths of ps name as inputs, in at most n
\* steps
RECURSIVE DiskReach(_, _, _)
DiskReach(disk, ps, n) ==
    IF n = 0 THEN ps
    ELSE DiskReach(disk,
            ps \cup { q \in DOMAIN disk :
                        \E p \in ps \cap DOMAIN disk :
                            \E k \in 1..Len(disk[p].inputs) :
                                disk[p].inputs[k] = q },
            n - 1)

DiskInputs(disk, path) ==
    { disk[path].inputs[k] : k \in 1..Len(disk[path].inputs) }

\* the inputs of the document at path reference, directly or through other
\* documents, the document itself
SelfReferencing(disk, path) ==
    path \in DiskReach(disk, DiskInputs(disk, path), Cardinality(DOMAIN disk))

\* C30: _build_sdf_eval on a union, intersect or subtract document whose
\* inputs reference the document itself stops with an error, having entered
\* no more frames than there are documents: it does not go on loading the
\* same documents
C30_SelfReferenceStops ==
    (call.fn = "_build_sdf_eval" /\ SelfReferencing(call.disk, call.path)) =>
        /\ call.status # "ok"
        /\ call.depth <= Cardinality(DOMAIN call.disk)

\* calls that compare the evaluators with one another, and builds from disk
FieldNext ==
    \/ EvaluateBox
    \/ EvaluateNary
    \/ BuildFromDisk

SpecField == LibInit /\ [][FieldNext]_vars

----------------------------------------------------------------------------
(* implicit_core/lattice/organic.py : sample_points_inside *)

MaxPoints == 2            \* largest n_points of the model
TriesPerPoint == 50       \* max_tries = n_points * 50

\* the points random.uniform can draw from the bounds, and the fields on them
BoxPoints == {"P", "Q"}
Fields == [BoxPoints -> {-1, 0, 1}]

Accepts_NotPositive(v) == v <= 0

\* if sdf(x, y, z) < 0.0
Accepts(v) == v < 0

\* sample_points_inside(sdf, bounds, n_points) entered: pts = [], tries = 0
SampleInit ==
    /\ image = NoImage
    /\ raw_bits = <<>>
    /\ payload = <<>>
    /\ pc = "idle"
    /\ FilesIdle
    /\ LibIdle
    /\ sdf \in Fields
    /\ n_points \in 0..MaxPoints
    /\ pts = <<>>
    /\ tries = 0
    /\ draws = 0
    /\ spc = "loop"

\* one pass of the while body: draw, test, count, compare with max_tries
SampleDraw ==
    /\ spc = "loop"
    /\ Len(pts) < n_points
    /\ \E P \in BoxPoints :
          pts' = IF Accepts(sdf[P]) THEN Append(pts, P) ELSE pts
    /\ draws' = draws + 1
    /\ tries' = tries + 1
    /\ spc' = IF tries + 1 > n_points * TriesPerPoint THEN "raised" ELSE "loop"
    /\ UNCHANGED <<sdf, n_points>>
    /\ UNCHANGED <<codecVars, pipeVars, libVars>>

\* the while test fails: return pts
SampleReturn ==
    /\ spc = "loop"
    /\ Len(pts) >= n_points
    /\ spc' = "returned"
    /\ UNCHANGED <<sdf, n_points, pts, tries, draws>>
    /\ UNCHANGED <<codecVars, pipeVars, libVars>>

SampleNext ==
    \/ SampleDraw
    \/ SampleReturn

\* the interpreter keeps running the call until it returns or raises
SpecSample == SampleInit /\ [][SampleNext]_vars /\ WF_vars(SampleNext)

SampleEnded == spc \in {"returned", "raised"}

\* what holds of every state of a call
SampleSafe ==
    /\ draws <= TriesPerPoint * n_points + 1
    /\ spc = "returned" =>
          /\ Len(pts) = n_points
          /\ \A i \in 1..Len(pts) : sdf[pts[i]] < 0

\* C19: sample_points_inside terminates after at most 50 * n_points + 1 draws
\* whatever the field, a field that is never negative included: it returns
\* exactly n_points points, each with sdf < 0, or it raises RuntimeError
C19_BoundedSampling == []SampleSafe /\ <>SampleEnded

\* the call that raises on its last permitted draw over a field that is never
\* negative
C19_Witness ==
    /\ spc = "raised"
    /\ n_points = MaxPoints
    /\ \A P \in BoxPoints : sdf[P] >= 0
    /\ draws = TriesPerPoint * n_points + 1
    /\ pts = <<>>

\* C27: sample_points_inside raises RuntimeError only when fewer than n_points
\* points have been accepted; a call in which the n_points-th point is
\* accepted, on whichever draw, returns the points
C27_RaisesOnlyWhenShort ==
    spc = "raised" => Len(pts) < n_points

====
